---------------------------- MODULE Spec2Model ----------------------------
(***************************************************************************)
(* A model of speaksql's in-memory CSV store and SQL-subset interpreter:   *)
(* SimpleQueryEngine and DatabaseService of src/lib/database-service.ts.   *)
(*                                                                         *)
(* A JavaScript string is a sequence of one-character strings, so that the *)
(* regular expressions, trim, toLowerCase, split and parseInt of the code  *)
(* are computed character by character, as the code computes them.         *)
(***************************************************************************)
EXTENDS Integers, Sequences, FiniteSets, TLC

(***************************************************************************)
(* Characters and the JavaScript string helpers the code uses.             *)
(***************************************************************************)
Digits == {"0", "1", "2", "3", "4", "5", "6", "7", "8", "9"}

UpperSeq ==
  <<"A", "B", "C", "D", "E", "F", "G", "H", "I", "J", "K", "L", "M",
    "N", "O", "P", "Q", "R", "S", "T", "U", "V", "W", "X", "Y", "Z">>

LowerSeq ==
  <<"a", "b", "c", "d", "e", "f", "g", "h", "i", "j", "k", "l", "m",
    "n", "o", "p", "q", "r", "s", "t", "u", "v", "w", "x", "y", "z">>

Uppers == {UpperSeq[i] : i \in DOMAIN UpperSeq}

Lowers == {LowerSeq[i] : i \in DOMAIN LowerSeq}

\* \w of a JavaScript regular expression: [A-Za-z0-9_]
WordChars == Uppers \cup Lowers \cup Digits \cup {"_"}

\* \s of a JavaScript regular expression (the members a statement can hold here)
Spaces == {" ", "\t", "\n"}

\* what "." of a JavaScript regular expression does not match
LineTerminators == {"\n"}

\* the backtick character (a TLA+ string cannot hold one)
Backtick == "BACKTICK"

SingleQuote == "'"

DoubleQuote == "\""

\* the character class of the code's regular expressions that holds the backtick,
\* the double quote and the single quote
Quotes == {Backtick, DoubleQuote, SingleQuote}

LowerMap == [c \in Uppers |-> LowerSeq[CHOOSE i \in DOMAIN UpperSeq : UpperSeq[i] = c]]

LowerChar(c) == IF c \in Uppers THEN LowerMap[c] ELSE c

\* const x = e; F(x): e is evaluated once and F applied to its value
With(e, F(_)) == CHOOSE r \in {F(x) : x \in {e}} : TRUE

\* String.prototype.toLowerCase
toLowerCase(s) == [i \in 1..Len(s) |-> LowerChar(s[i])]

\* the characters of s from index i (1-based) to the end
From(s, i) == SubSeq(s, i, Len(s))

\* whether p occurs in s at index i (1-based)
OccursAt(s, p, i) ==
  /\ i >= 1
  /\ i + Len(p) - 1 =< Len(s)
  /\ \A k \in 1..Len(p) : s[i + k - 1] = p[k]

\* String.prototype.startsWith
startsWith(s, p) == OccursAt(s, p, 1)

\* String.prototype.includes
includes(s, p) == \E i \in 1..(Len(s) + 1) : OccursAt(s, p, i)

\* the number of characters of s from index i on that belong to class: the length
\* a greedy quantifier over class takes at i
RunLen(s, i, class) ==
  IF i > Len(s) THEN 0
  ELSE (CHOOSE j \in i..(Len(s) + 1) :
          /\ j = Len(s) + 1 \/ s[j] \notin class
          /\ \A k \in i..(j - 1) : s[k] \in class) - i

\* the number of characters of class at the end of s
TailRunLen(s, class) ==
  Len(s) - (CHOOSE j \in 0..Len(s) :
              /\ j = 0 \/ s[j] \notin class
              /\ \A k \in (j + 1)..Len(s) : s[k] \in class)

\* String.prototype.trim
trim(s) ==
  With(s, LAMBDA v :
    With(RunLen(v, 1, Spaces), LAMBDA lead :
      IF lead = Len(v) THEN << >>
      ELSE SubSeq(v, lead + 1, Len(v) - TailRunLen(v, Spaces))))

\* s.replace(/[Q]/g, ""): every quote character removed
stripQuotes(s) == SelectSeq(s, LAMBDA c : c \notin Quotes)

\* the first index >= i of s that holds character c, 0 when there is none
IndexOfChar(s, c, i) ==
  IF \E j \in i..Len(s) : s[j] = c
    THEN CHOOSE j \in i..Len(s) : s[j] = c /\ \A k \in i..(j - 1) : s[k] # c
    ELSE 0

\* String.prototype.split(","): the pieces between the commas
RECURSIVE split(_)
split(s) ==
  With(s, LAMBDA v :
    With(IndexOfChar(v, ",", 1), LAMBDA k :
      IF k = 0 THEN << v >>
      ELSE << SubSeq(v, 1, k - 1) >> \o split(From(v, k + 1))))

DigitSeq == <<"0", "1", "2", "3", "4", "5", "6", "7", "8", "9">>

DigitValue(c) == CHOOSE d \in 0..9 : DigitSeq[d + 1] = c

\* the value of the first n characters of s, decimal digits
RECURSIVE DigitsValue(_, _)
DigitsValue(s, n) ==
  IF n = 0 THEN 0 ELSE 10 * DigitsValue(s, n - 1) + DigitValue(s[n])

\* parseInt of a string of decimal digits
parseInt(s) == With(s, LAMBDA v : DigitsValue(v, Len(v)))

\* Array.prototype.indexOf, 1-based; 0 when x is not an element (JavaScript's -1)
indexOf(arr, x) ==
  IF \E i \in DOMAIN arr : arr[i] = x
    THEN CHOOSE i \in DOMAIN arr : arr[i] = x /\ \A j \in 1..(i - 1) : arr[j] # x
    ELSE 0

\* arr[i] || "" for a 1-based position i: a missing or empty cell reads ""
CellOr(arr, i) == IF i \in DOMAIN arr THEN arr[i] ELSE << >>

(***************************************************************************)
(* A JavaScript Map is a sequence of entries in insertion order; the key   *)
(* of an entry is its field "name" (tables) or "id" (connections).         *)
(***************************************************************************)
TableIndex(tbls, name) ==
  IF \E i \in DOMAIN tbls : tbls[i].name = name
    THEN CHOOSE i \in DOMAIN tbls : tbls[i].name = name
    ELSE 0

\* Map.prototype.has
HasTable(tbls, name) == TableIndex(tbls, name) # 0

\* Map.prototype.set: an existing key keeps its place, a new key is appended
MapSet(tbls, table) ==
  LET i == TableIndex(tbls, table.name)
  IN  IF i = 0 THEN Append(tbls, table) ELSE [tbls EXCEPT ![i] = table]

\* Map.prototype.delete
MapDelete(tbls, name) == SelectSeq(tbls, LAMBDA t : t.name # name)

(***************************************************************************)
(* SimpleQueryEngine: the table store.                                     *)
(***************************************************************************)
IdLiteral == <<"i", "d">>

\* primaryKeyFlag that looks at the name only
primaryKeyFlagAnywhere(index, colName) ==
  includes(toLowerCase(colName), IdLiteral)

\* the primaryKey flag createTable gives the column at 1-based position index
primaryKeyFlag(index, colName) ==
  index = 1 /\ includes(toLowerCase(colName), IdLiteral)

createTable(tbls, name, columns, data) ==
  MapSet(tbls,
         [name |-> name,
          columns |-> [i \in 1..Len(columns) |->
                         [name |-> columns[i].name,
                          type |-> columns[i].type,
                          primaryKey |-> primaryKeyFlag(i, columns[i].name)]],
          rows |-> data])

\* dropTable that deletes nothing
dropTableKeeping(tbls, name) == tbls

dropTable(tbls, name) == MapDelete(tbls, name)

getTables(tbls) == [i \in 1..Len(tbls) |-> tbls[i].name]

(***************************************************************************)
(* The outcome of a call: a result, or the error it threw.  An error is    *)
(* its message template (kind) with the names the message quotes.          *)
(*   TableDoesNotExist   "Table '<table>' does not exist"                  *)
(*   ColumnDoesNotExist  "Column '<column>' does not exist in table        *)
(*                        '<table>'"                                       *)
(*   ParseTableName      "Could not parse table name from query"           *)
(*   ParseSelect         "Could not parse SELECT clause"                   *)
(*   ParsePragma         "Could not parse PRAGMA statement"                *)
(*   NotSupported        "Query type not supported yet"                    *)
(*   NoActiveConnection  "No active connection"                            *)
(*   BackendRequired     "<type> connections require backend               *)
(*                        implementation"                                  *)
(***************************************************************************)
Empty == << >>

Ok(columns, rows) ==
  [status |-> "ok", columns |-> columns, rows |-> rows,
   kind |-> "", table |-> Empty, column |-> Empty, wrapped |-> FALSE]

Err(kind, table, column) ==
  [status |-> "error", columns |-> Empty, rows |-> Empty,
   kind |-> kind, table |-> table, column |-> column, wrapped |-> FALSE]

NoResult ==
  [status |-> "none", columns |-> Empty, rows |-> Empty,
   kind |-> "", table |-> Empty, column |-> Empty, wrapped |-> FALSE]

(***************************************************************************)
(* The regular expressions of executeSelect and executePragma, matched as  *)
(* JavaScript matches them: the leftmost match, greedy quantifiers.  [Q]   *)
(* stands for the code's character class Quotes.                           *)
(***************************************************************************)
KwFrom == <<"f", "r", "o", "m">>

KwSelect == <<"s", "e", "l", "e", "c", "t">>

KwLimit == <<"l", "i", "m", "i", "t">>

KwPragma == <<"p", "r", "a", "g", "m", "a">>

KwTableInfo == <<"t", "a", "b", "l", "e", "_", "i", "n", "f", "o">>

NoMatch == [found |-> FALSE, text |-> Empty]

Match(text) == [found |-> TRUE, text |-> text]

\* the least element of a non-empty set of integers
Min(S) == CHOOSE m \in S : \A k \in S : m =< k

\* the match of a regular expression at the least index where At finds one
Leftmost(s, low, At(_, _, _)) ==
  With({i \in 1..Len(s) : At(s, low, i).found}, LAMBDA hits :
    IF hits = {} THEN NoMatch ELSE At(s, low, Min(hits)))

\* /from\s+([Q]?)(\w+)\1/i tried at index i: the second group when it matches
FromMatchAt(s, low, i) ==
  IF ~OccursAt(low, KwFrom, i) THEN NoMatch
  ELSE
    With(RunLen(s, i + 4, Spaces), LAMBDA ws :
      IF ws = 0 \/ i + 4 + ws > Len(s) THEN NoMatch
      ELSE IF s[i + 4 + ws] \in Quotes
        THEN With(RunLen(s, i + 5 + ws, WordChars), LAMBDA w :
               IF w > 0 /\ i + 5 + ws + w =< Len(s) /\ s[i + 5 + ws + w] = s[i + 4 + ws]
                 THEN Match(SubSeq(s, i + 5 + ws, i + 4 + ws + w))
                 ELSE NoMatch)
        ELSE With(RunLen(s, i + 4 + ws, WordChars), LAMBDA w :
               IF w > 0 THEN Match(SubSeq(s, i + 4 + ws, i + 3 + ws + w)) ELSE NoMatch))

\* trimmedSql.match(/from\s+([Q]?)(\w+)\1/i): fromMatch[2]
fromMatch(s) ==
  With(s, LAMBDA v : With(toLowerCase(v), LAMBDA low : Leftmost(v, low, FromMatchAt)))

\* the least q >= start with no line terminator in start..q-1, a space at q, and
\* "from" right after the spaces that begin at q; 0 when there is none
LazyEnd(s, low, start) ==
  With({q \in start..Len(s) :
          /\ s[q] \in Spaces
          /\ OccursAt(low, KwFrom, q + RunLen(s, q, Spaces))
          /\ \A k \in start..(q - 1) : s[k] \notin LineTerminators},
       LAMBDA ends : IF ends = {} THEN 0 ELSE Min(ends))

\* /select\s+(.*?)\s+from/i tried at index i: the first group when it matches
SelectMatchAt(s, low, i) ==
  IF ~OccursAt(low, KwSelect, i) THEN NoMatch
  ELSE
    With(RunLen(s, i + 6, Spaces), LAMBDA ws :
      IF ws = 0 THEN NoMatch
      ELSE With(LazyEnd(s, low, i + 6 + ws), LAMBDA q :
             IF q # 0 THEN Match(SubSeq(s, i + 6 + ws, q - 1))
             \* \s+ gives back a space: the group is empty and \s+from takes it
             ELSE IF ws >= 2 /\ OccursAt(low, KwFrom, i + 6 + ws) THEN Match(Empty)
             ELSE NoMatch))

\* trimmedSql.match(/select\s+(.*?)\s+from/i): selectMatch[1]
selectMatch(s) ==
  With(s, LAMBDA v : With(toLowerCase(v), LAMBDA low : Leftmost(v, low, SelectMatchAt)))

\* /limit\s+(\d+)/i tried at index i
LimitMatchAt(s, low, i) ==
  IF ~OccursAt(low, KwLimit, i) THEN NoMatch
  ELSE
    With(RunLen(s, i + 5, Spaces), LAMBDA ws :
      With(RunLen(s, i + 5 + ws, Digits), LAMBDA d :
        IF ws > 0 /\ d > 0
          THEN Match(SubSeq(s, i + 5 + ws, i + 4 + ws + d))
          ELSE NoMatch))

\* trimmedSql.match(/limit\s+(\d+)/i): limitMatch[1]
limitMatch(s) ==
  With(s, LAMBDA v : With(toLowerCase(v), LAMBDA low : Leftmost(v, low, LimitMatchAt)))

\* [Q]?(\w+)[Q]?\s*\) tried at index c: the word when it matches
PragmaNameAt(s, c) ==
  With(IF c =< Len(s) /\ s[c] \in Quotes THEN c + 1 ELSE c, LAMBDA d :
    With(RunLen(s, d, WordChars), LAMBDA w :
      With(IF d + w =< Len(s) /\ s[d + w] \in Quotes THEN d + w + 1 ELSE d + w, LAMBDA e :
        With(e + RunLen(s, e, Spaces), LAMBDA f :
          IF w > 0 /\ f =< Len(s) /\ s[f] = ")"
            THEN Match(SubSeq(s, d, d + w - 1))
            ELSE NoMatch))))

\* /pragma\s+table_info\s*\(\s*[Q]?(\w+)[Q]?\s*\)/i tried at index i
PragmaMatchAt(s, low, i) ==
  IF ~OccursAt(low, KwPragma, i) THEN NoMatch
  ELSE
    With(RunLen(s, i + 6, Spaces), LAMBDA ws1 :
      IF ws1 = 0 \/ ~OccursAt(low, KwTableInfo, i + 6 + ws1) THEN NoMatch
      ELSE With(i + 16 + ws1 + RunLen(s, i + 16 + ws1, Spaces), LAMBDA b :
             IF b =< Len(s) /\ s[b] = "("
               THEN PragmaNameAt(s, b + 1 + RunLen(s, b + 1, Spaces))
               ELSE NoMatch))

\* sql.match(/pragma\s+table_info\s*\(\s*[Q]?(\w+)[Q]?\s*\)/i): tableMatch[1]
pragmaMatch(s) ==
  With(s, LAMBDA v : With(toLowerCase(v), LAMBDA low : Leftmost(v, low, PragmaMatchAt)))

(***************************************************************************)
(* SimpleQueryEngine: executeSelect, executePragma, executeQuery.          *)
(***************************************************************************)
Star == <<"*">>

\* table.columns.findIndex((col) => col.name === colName), 1-based, 0 for -1
findIndex(columns, colName) ==
  IF \E i \in DOMAIN columns : columns[i].name = colName
    THEN CHOOSE i \in DOMAIN columns :
           /\ columns[i].name = colName
           /\ \A j \in 1..(i - 1) : columns[j].name # colName
    ELSE 0

columnNames(table) == [i \in 1..Len(table.columns) |-> table.columns[i].name]

\* the select list: "*" is every column of the table, otherwise the pieces between
\* the commas, each trimmed and with its quote characters removed
selectedColumnsOf(table, selectClause) ==
  With(selectClause, LAMBDA clause :
    IF clause = Star THEN columnNames(table)
    ELSE With(split(clause), LAMBDA pieces :
           [i \in 1..Len(pieces) |-> stripQuotes(trim(pieces[i]))]))

\* resultRows.slice(0, limit) when the statement holds a LIMIT
applyLimit(rows, trimmedSql) ==
  With(limitMatch(trimmedSql), LAMBDA lm :
    IF lm.found
      THEN With(parseInt(lm.text), LAMBDA limit :
             SubSeq(rows, 1, IF limit < Len(rows) THEN limit ELSE Len(rows)))
      ELSE rows)

\* projectRows that reads cell j of the row for result column j
projectRowsByPosition(rows, columnIndices) ==
  [r \in 1..Len(rows) |->
     [j \in 1..Len(columnIndices) |-> CellOr(rows[r], j)]]

\* resultRows.map((row) => columnIndices.map((index) => row[index] || ""))
projectRows(rows, columnIndices) ==
  [r \in 1..Len(rows) |->
     [j \in 1..Len(columnIndices) |-> CellOr(rows[r], columnIndices[j])]]

\* selectFromTable that resolves the columns while it projects a row: with no row
\* to project it returns the columns it was asked for
selectFromTableResolvingPerRow(table, tableName, selectClause, trimmedSql) ==
  With(selectedColumnsOf(table, selectClause), LAMBDA selectedColumns :
    With(applyLimit(table.rows, trimmedSql), LAMBDA resultRows :
      With([j \in 1..Len(selectedColumns) |->
              findIndex(table.columns, selectedColumns[j])], LAMBDA columnIndices :
        With({j \in 1..Len(selectedColumns) : columnIndices[j] = 0}, LAMBDA missing :
          IF missing # {} /\ Len(resultRows) > 0
            THEN Err("ColumnDoesNotExist", tableName, selectedColumns[Min(missing)])
            ELSE Ok(selectedColumns, projectRows(resultRows, columnIndices))))))

\* the part of executeSelect after the table and the select list are found
selectFromTable(table, tableName, selectClause, trimmedSql) ==
  With(selectedColumnsOf(table, selectClause), LAMBDA selectedColumns :
    \* WHERE clause support can be added later: all rows
    With(applyLimit(table.rows, trimmedSql), LAMBDA resultRows :
      With([j \in 1..Len(selectedColumns) |->
              findIndex(table.columns, selectedColumns[j])], LAMBDA columnIndices :
        With({j \in 1..Len(selectedColumns) : columnIndices[j] = 0}, LAMBDA missing :
          IF missing # {}
            THEN Err("ColumnDoesNotExist", tableName, selectedColumns[Min(missing)])
            ELSE Ok(selectedColumns, projectRows(resultRows, columnIndices))))))

executeSelect(tbls, sql) ==
  With(trim(sql), LAMBDA trimmedSql :
    With(fromMatch(trimmedSql), LAMBDA fm :
      IF ~fm.found THEN Err("ParseTableName", Empty, Empty)
      ELSE IF ~HasTable(tbls, fm.text) THEN Err("TableDoesNotExist", fm.text, Empty)
      ELSE With(selectMatch(trimmedSql), LAMBDA sm :
             IF ~sm.found THEN Err("ParseSelect", Empty, Empty)
             ELSE With(tbls[TableIndex(tbls, fm.text)], LAMBDA table :
                    selectFromTable(table, fm.text, trim(sm.text), trimmedSql)))))

PragmaColumns ==
  << <<"c", "i", "d">>, <<"n", "a", "m", "e">>, <<"t", "y", "p", "e">>,
     <<"n", "o", "t", "n", "u", "l", "l">>,
     <<"d", "f", "l", "t", "_", "v", "a", "l", "u", "e">>, <<"p", "k">> >>

\* Number.prototype.toString of a natural number
RECURSIVE toString(_)
toString(n) ==
  IF n < 10 THEN << DigitSeq[n + 1] >>
  ELSE Append(toString(n \div 10), DigitSeq[(n % 10) + 1])

\* the type tags, as strings of the store
TypeName(tag) ==
  CASE tag = "INTEGER"  -> <<"I", "N", "T", "E", "G", "E", "R">>
    [] tag = "REAL"     -> <<"R", "E", "A", "L">>
    [] tag = "DATETIME" -> <<"D", "A", "T", "E", "T", "I", "M", "E">>
    [] OTHER            -> <<"T", "E", "X", "T">>

\* executePragma that fails for a table that is not stored, as executeSelect does
executePragmaMissingFails(tbls, sql) ==
  With(pragmaMatch(sql), LAMBDA tm :
    IF ~tm.found THEN Err("ParsePragma", Empty, Empty)
    ELSE IF ~HasTable(tbls, tm.text) THEN Err("TableDoesNotExist", tm.text, Empty)
    ELSE
      With(tbls[TableIndex(tbls, tm.text)], LAMBDA table :
        Ok(PragmaColumns,
           [i \in 1..Len(table.columns) |->
              << toString(i - 1), table.columns[i].name,
                 TypeName(table.columns[i].type), <<"0">>, Empty,
                 IF table.columns[i].primaryKey THEN <<"1">> ELSE <<"0">> >>])))

\* executePragma that reports the first column as the primary key
executePragmaFirstIsKey(tbls, sql) ==
  With(pragmaMatch(sql), LAMBDA tm :
    IF ~tm.found THEN Err("ParsePragma", Empty, Empty)
    ELSE IF ~HasTable(tbls, tm.text) THEN Ok(Empty, Empty)
    ELSE
      With(tbls[TableIndex(tbls, tm.text)], LAMBDA table :
        Ok(PragmaColumns,
           [i \in 1..Len(table.columns) |->
              << toString(i - 1), table.columns[i].name,
                 TypeName(table.columns[i].type), <<"0">>, Empty,
                 IF i = 1 THEN <<"1">> ELSE <<"0">> >>])))

executePragma(tbls, sql) ==
  With(pragmaMatch(sql), LAMBDA tm :
    IF ~tm.found THEN Err("ParsePragma", Empty, Empty)
    ELSE IF ~HasTable(tbls, tm.text) THEN Ok(Empty, Empty)
    ELSE
      With(tbls[TableIndex(tbls, tm.text)], LAMBDA table :
        Ok(PragmaColumns,
           [i \in 1..Len(table.columns) |->
              << toString(i - 1), table.columns[i].name,
                 TypeName(table.columns[i].type), <<"0">>, Empty,
                 IF table.columns[i].primaryKey THEN <<"1">> ELSE <<"0">> >>])))

KwShowTables == <<"s", "h", "o", "w", " ", "t", "a", "b", "l", "e", "s">>

KwSqliteMaster ==
  <<"s", "q", "l", "i", "t", "e", "_", "m", "a", "s", "t", "e", "r">>

NameColumn == << <<"n", "a", "m", "e">> >>

\* SimpleQueryEngine.executeQuery
engineExecuteQuery(tbls, sql) ==
  With(toLowerCase(trim(sql)), LAMBDA trimmedSql :
    IF startsWith(trimmedSql, KwSelect) THEN executeSelect(tbls, sql)
    ELSE IF startsWith(trimmedSql, KwPragma) THEN executePragma(tbls, sql)
    ELSE IF includes(trimmedSql, KwShowTables) \/ includes(trimmedSql, KwSqliteMaster)
      THEN Ok(NameColumn, [i \in 1..Len(tbls) |-> << getTables(tbls)[i] >>])
    ELSE Err("NotSupported", Empty, Empty))

(***************************************************************************)
(* DatabaseService: column type detection.                                 *)
(***************************************************************************)
\* .slice(0, 100): the number of non-empty values detectColumnType inspects
SampleLimit == 100

\* /^\d+$/.test(v)
IsAllDigits(v) == With(v, LAMBDA x : Len(x) > 0 /\ RunLen(x, 1, Digits) = Len(x))

\* /^\d*\.?\d+$/.test(v)
IsDecimal(v) ==
  With(v, LAMBDA x :
    With(RunLen(x, 1, Digits), LAMBDA a :
      \/ IsAllDigits(x)
      \/ /\ a < Len(x)
         /\ x[a + 1] = "."
         /\ IsAllDigits(From(x, a + 2))))

\* the days of month m of year y
DaysInMonth(y, m) ==
  IF m = 2
    THEN IF (y % 4 = 0 /\ y % 100 # 0) \/ y % 400 = 0 THEN 29 ELSE 28
    ELSE IF m \in {4, 6, 9, 11} THEN 30 ELSE 31

\* the ECMAScript date-time string format, date-only form YYYY-MM-DD
IsIsoDate(v) ==
  /\ Len(v) = 10
  /\ v[5] = "-" /\ v[8] = "-"
  /\ \A i \in {1, 2, 3, 4, 6, 7, 9, 10} : v[i] \in Digits
  /\ parseInt(SubSeq(v, 6, 7)) \in 1..12
  /\ parseInt(SubSeq(v, 9, 10)) \in
       1..DaysInMonth(parseInt(SubSeq(v, 1, 4)), parseInt(SubSeq(v, 6, 7)))

\* !isNaN(Date.parse(v)).  A string in the date-time string format parses.  For any
\* other string the result is implementation-defined: a string with no digit is
\* NaN in every engine, another one parses when the engine's fallback is lenient.
dateParses(v, lenient) ==
  IF IsIsoDate(v) THEN TRUE
  ELSE IF \A i \in DOMAIN v : v[i] \notin Digits THEN FALSE
  ELSE lenient

Take(seq, n) == SubSeq(seq, 1, IF n < Len(seq) THEN n ELSE Len(seq))

\* Array.prototype.every
every(arr, P(_)) == \A i \in DOMAIN arr : P(arr[i])

\* detectColumnType that inspects every non-empty value of the column
detectColumnTypeWholeColumn(values, lenient) ==
  With(SelectSeq(values, LAMBDA v : v # Empty /\ trim(v) # Empty),
       LAMBDA nonEmptyValues :
    IF Len(nonEmptyValues) = 0 THEN "TEXT"
    ELSE IF every(nonEmptyValues, LAMBDA v : IsAllDigits(trim(v))) THEN "INTEGER"
    ELSE IF every(nonEmptyValues, LAMBDA v : IsDecimal(trim(v))) THEN "REAL"
    ELSE IF every(nonEmptyValues, LAMBDA v : dateParses(v, lenient)) THEN "DATETIME"
    ELSE "TEXT")

\* detectColumnType that tests the decimal pattern before the all-digits pattern
detectColumnTypeRealFirst(values, lenient) ==
  With(Take(SelectSeq(values, LAMBDA v : v # Empty /\ trim(v) # Empty), SampleLimit),
       LAMBDA nonEmptyValues :
    IF Len(nonEmptyValues) = 0 THEN "TEXT"
    ELSE IF every(nonEmptyValues, LAMBDA v : IsDecimal(trim(v))) THEN "REAL"
    ELSE IF every(nonEmptyValues, LAMBDA v : IsAllDigits(trim(v))) THEN "INTEGER"
    ELSE IF every(nonEmptyValues, LAMBDA v : dateParses(v, lenient)) THEN "DATETIME"
    ELSE "TEXT")

detectColumnType(values, lenient) ==
  With(Take(SelectSeq(values, LAMBDA v : v # Empty /\ trim(v) # Empty), SampleLimit),
       LAMBDA nonEmptyValues :
    IF Len(nonEmptyValues) = 0 THEN "TEXT"
    ELSE IF every(nonEmptyValues, LAMBDA v : IsAllDigits(trim(v))) THEN "INTEGER"
    ELSE IF every(nonEmptyValues, LAMBDA v : IsDecimal(trim(v))) THEN "REAL"
    ELSE IF every(nonEmptyValues, LAMBDA v : dateParses(v, lenient)) THEN "DATETIME"
    ELSE "TEXT")

(***************************************************************************)
(* DatabaseService: importCsvData up to its await, the store's part.       *)
(***************************************************************************)
\* the columns importCsvData derives from the header row and the data rows
importColumns(headers, rows, lenient) ==
  [h \in 1..Len(headers) |->
     [name |-> trim(headers[h]),
      type |-> detectColumnType(
                 [r \in 1..Len(rows) |-> CellOr(rows[r], indexOf(headers, headers[h]))],
                 lenient)]]

\* importCsvData without the drop: the rows are added to a table already stored
importCsvDataAppending(tbls, tableName, csvData, lenient) ==
  IF Len(csvData) = 0 THEN tbls
  ELSE IF HasTable(tbls, tableName)
    THEN [tbls EXCEPT ![TableIndex(tbls, tableName)].rows = @ \o Tail(csvData)]
    ELSE createTable(tbls, tableName,
                     importColumns(csvData[1], Tail(csvData), lenient), Tail(csvData))

\* importCsvData with the drop moved before the test for no data
importCsvDataDroppingFirst(tbls, tableName, csvData, lenient) ==
  IF Len(csvData) = 0 THEN dropTable(tbls, tableName)
  ELSE createTable(dropTable(tbls, tableName), tableName,
                   importColumns(csvData[1], Tail(csvData), lenient), Tail(csvData))

importCsvData(tbls, tableName, csvData, lenient) ==
  IF Len(csvData) = 0 THEN tbls
  ELSE
    LET headers == csvData[1]
        rows    == Tail(csvData)
    IN  createTable(dropTable(tbls, tableName), tableName,
                    importColumns(headers, rows, lenient), rows)

(***************************************************************************)
(* DatabaseService: connections.                                           *)
(***************************************************************************)
\* activeConnection = null
Null == 0

ConnIndex(conns, id) ==
  IF \E i \in DOMAIN conns : conns[i].id = id
    THEN CHOOSE i \in DOMAIN conns : conns[i].id = id
    ELSE 0

\* addConnection: a connection with a fresh id, not connected
addConnection(conns, id, name, type) ==
  Append(conns, [id |-> id, name |-> name, type |-> type, connected |-> FALSE])

\* setActiveConnection's update of the connections map (the id is registered)
markConnected(conns, id) ==
  [i \in 1..Len(conns) |->
     IF conns[i].id = id THEN [conns[i] EXCEPT !.connected = TRUE] ELSE conns[i]]

\* findCsvConnection that passes over a csv connection not marked connected
findConnectedCsvConnection(conns) ==
  IF \E i \in DOMAIN conns : conns[i].type = "csv" /\ conns[i].connected
    THEN conns[CHOOSE i \in DOMAIN conns :
                 /\ conns[i].type = "csv" /\ conns[i].connected
                 /\ \A j \in 1..(i - 1) : ~(conns[j].type = "csv" /\ conns[j].connected)].id
    ELSE Null

\* the id of the first connection of type csv, Null when there is none
findCsvConnection(conns) ==
  IF \E i \in DOMAIN conns : conns[i].type = "csv"
    THEN conns[CHOOSE i \in DOMAIN conns :
                 /\ conns[i].type = "csv"
                 /\ \A j \in 1..(i - 1) : conns[j].type # "csv"].id
    ELSE Null

\* getActiveConnection: the active connection's type, "none" for null
activeType(conns, active) ==
  IF active = Null \/ ConnIndex(conns, active) = 0 THEN "none"
  ELSE conns[ConnIndex(conns, active)].type

\* executeCsvQuery: the engine's result, an error rethrown as
\* "Query execution failed: <message>"
executeCsvQuery(tbls, sql) ==
  With(engineExecuteQuery(tbls, sql), LAMBDA r :
    IF r.status = "error" THEN [r EXCEPT !.wrapped = TRUE] ELSE r)

\* DatabaseService.executeQuery
executeQuery(tbls, conns, active, sql) ==
  With(activeType(conns, active), LAMBDA type :
    IF type = "none" THEN Err("NoActiveConnection", Empty, Empty)
    ELSE IF type = "csv" THEN executeCsvQuery(tbls, sql)
    ELSE Err("BackendRequired", Empty, Empty))

(***************************************************************************)
(* The inputs the model draws: table names, CSV data, statements.          *)
(***************************************************************************)
\* the most data rows of an imported CSV
MaxRows == 2

\* the largest n of a LIMIT n
MaxLimit == 2

NameT == <<"t">>

NameUpperT == <<"T">>

TableNames == {NameT, NameUpperT}

ColId == <<"i", "d">>

ColUpperId == <<"I", "D">>

ColN == <<"n">>

ColA == <<"a">>

\* header rows: plain; two equal names; a name with surrounding white space
HeaderRows ==
  { <<ColId, ColN>>, <<ColA, ColA>>, << <<" ", "k", " ">> >> }

\* data rows: as long as a two-column header, shorter, longer
MasterRows ==
  << << <<"1">>, <<"a">> >>, << <<"2">> >>, << <<"3">>, <<"A">>, <<"x">> >> >>

\* the runs of at most MaxRows consecutive rows of MasterRows
RowSeqs ==
  {SubSeq(MasterRows, i, i + k - 1) :
     <<i, k>> \in {p \in (1..Len(MasterRows)) \X (0..MaxRows) :
                     p[1] + p[2] - 1 =< Len(MasterRows)}}

\* csvData: nothing at all, or a header row followed by data rows
CsvInputs == {Empty} \cup {<<h>> \o rows : h \in HeaderRows, rows \in RowSeqs}

\* createTable called directly: columns with their types, and rows
CreateInputs ==
  { [columns |-> << [name |-> ColUpperId, type |-> "INTEGER"] >>,
     data |-> << << <<"7">> >> >>],
    [columns |-> << [name |-> ColN, type |-> "TEXT"], [name |-> ColId, type |-> "TEXT"] >>,
     data |-> Empty] }

NoQuery == [kind |-> "none", cols |-> Empty, table |-> Empty, where |-> Empty, limit |-> -1]

\* a SELECT statement: its select list, table, WHERE (column, literal) and LIMIT
SelectQuery(cols, table, where, limit) ==
  [kind |-> "select", cols |-> cols, table |-> table, where |-> where, limit |-> limit]

\* SELECT * FROM t
SelectAllFromT == SelectQuery(<<Star>>, NameT, Empty, -1)

RECURSIVE JoinComma(_)
JoinComma(items) ==
  IF Len(items) = 0 THEN Empty
  ELSE IF Len(items) = 1 THEN items[1]
  ELSE items[1] \o <<",", " ">> \o JoinComma(Tail(items))

\* the text of a statement
Render(q) ==
  <<"S", "E", "L", "E", "C", "T", " ">> \o JoinComma(q.cols)
    \o <<" ", "F", "R", "O", "M", " ">> \o q.table
    \o (IF q.where = Empty THEN Empty
        ELSE <<" ", "W", "H", "E", "R", "E", " ">> \o q.where[1]
               \o <<" ", "=", " ", "'">> \o q.where[2] \o <<"'">>)
    \o (IF q.limit < 0 THEN Empty
        ELSE <<" ", "L", "I", "M", "I", "T", " ">> \o toString(q.limit))

\* the text of a condition
RenderCondition(cond) == cond[1] \o <<" ">> \o cond[2] \o <<" ">> \o cond[3]

\* a statement that is only a condition, a SELECT with a condition of any
\* operator, a PRAGMA table_info, and a statement given as its text
WhereQuery(cond) ==
  [kind |-> "where", cols |-> Empty, table |-> Empty, where |-> cond, limit |-> -1]

SelectOpQuery(cols, table, where, limit) ==
  [kind |-> "selectop", cols |-> cols, table |-> table, where |-> where, limit |-> limit]

PragmaQuery(table) ==
  [kind |-> "pragma", cols |-> Empty, table |-> table, where |-> Empty, limit |-> -1]

RawQuery(text) ==
  [kind |-> "raw", cols |-> << text >>, table |-> Empty, where |-> Empty, limit |-> -1]

\* the text of a statement of any kind
StatementText(q) ==
  CASE q.kind = "select" -> Render(q)
    [] q.kind = "selectop" ->
         <<"S", "E", "L", "E", "C", "T", " ">> \o JoinComma(q.cols)
           \o <<" ", "F", "R", "O", "M", " ">> \o q.table
           \o (IF q.where = Empty THEN Empty
               ELSE <<" ", "W", "H", "E", "R", "E", " ">> \o RenderCondition(q.where))
           \o (IF q.limit < 0 THEN Empty
               ELSE <<" ", "L", "I", "M", "I", "T", " ">> \o toString(q.limit))
    [] q.kind = "pragma" ->
         <<"P", "R", "A", "G", "M", "A", " ", "t", "a", "b", "l", "e", "_",
           "i", "n", "f", "o", "(">> \o q.table \o <<")">>
    [] OTHER -> q.cols[1]

(***************************************************************************)
(* The state: the engine's tables, the service's connections, and what the *)
(* last call was and returned.                                             *)
(***************************************************************************)
VARIABLES
  tables,            \* SimpleQueryEngine.tables: the Map, in insertion order
  connections,       \* DatabaseService.connections: the Map, in insertion order
  activeConnection,  \* DatabaseService.activeConnection: an id, or Null
  nextId,            \* the next id crypto.randomUUID() gives
  lastOp,            \* per table name, the last call that named it
  lastCall,          \* the last call and its arguments
  result,            \* what the last call returned or threw
  pending            \* the calls in flight: what each does when it resumes

vars ==
  <<tables, connections, activeConnection, nextId, lastOp, lastCall, result,
    pending>>

\* lastOp of a name: the last call that named it other than an import of no data,
\* the header row and data rows that call was given (an import, a create), and
\* whether an import of no data has followed it
Op(op, csv) == [op |-> op, csv |-> csv, thenEmpty |-> FALSE]

NoOp == Op("none", Empty)

\* a call: its arguments, and whether it replaced an imported table
Call(op, name, csv, q, replaced) ==
  [op |-> op, name |-> name, csv |-> csv, q |-> q, replaced |-> replaced]

\* whether before is an import with another header row and more rows than csv
ReplacesImport(before, csv) ==
  /\ before.op = "import"
  /\ Len(csv) > 1
  /\ before.csv[1] # csv[1]
  /\ Len(before.csv) > Len(csv)

Init ==
  /\ tables = Empty
  /\ connections = Empty
  /\ activeConnection = Null
  /\ nextId = 1
  /\ pending = Empty
  /\ lastOp = [n \in TableNames |-> NoOp]
  /\ lastCall = Call("none", Empty, Empty, NoQuery, FALSE)
  /\ result = NoResult

\* ensureCsvConnection that makes the CSV connection active without marking it
\* connected
ensureCsvConnectionNotMarking(conns, id) ==
  With(findCsvConnection(conns), LAMBDA found :
    IF found = Null
      THEN [connections |-> addConnection(conns, id, "CSV Data", "csv"),
            activeConnection |-> id,
            nextId |-> id + 1]
      ELSE [connections |-> conns,
            activeConnection |-> found,
            nextId |-> id])

\* ensureCsvConnection: the connections and the active connection it leaves
ensureCsvConnection(conns, id) ==
  With(findCsvConnection(conns), LAMBDA found :
    IF found = Null
      THEN [connections |-> markConnected(addConnection(conns, id, "CSV Data", "csv"), id),
            activeConnection |-> id,
            nextId |-> id + 1]
      ELSE [connections |-> markConnected(conns, found),
            activeConnection |-> found,
            nextId |-> id])

\* databaseService.importCsvData(fileName, tableName, csvData), awaited; lenient is
\* what the JavaScript engine's Date.parse does with the strings it need not parse
ImportCsvData(tableName, csvData, lenient) ==
  \E newTables \in {importCsvData(tables, tableName, csvData, lenient)},
     conn \in {ensureCsvConnection(connections, nextId)} :
    /\ tables' = newTables
    /\ IF Len(csvData) = 0
         THEN /\ UNCHANGED <<connections, activeConnection, nextId>>
              /\ lastOp' = [lastOp EXCEPT ![tableName].thenEmpty = TRUE]
         ELSE /\ connections' = conn.connections
              /\ activeConnection' = conn.activeConnection
              /\ nextId' = conn.nextId
              /\ lastOp' = [lastOp EXCEPT ![tableName] = Op("import", csvData)]
    /\ lastCall' = Call("import", tableName, csvData, NoQuery,
                        ReplacesImport(lastOp[tableName], csvData))
    /\ result' = NoResult
    /\ UNCHANGED pending

\* SimpleQueryEngine.createTable(name, columns, data)
CreateTable(name, input) ==
  \E newTables \in {createTable(tables, name, input.columns, input.data)} :
    /\ tables' = newTables
    /\ lastOp' = [lastOp EXCEPT ![name] =
                    Op("create", << [i \in 1..Len(input.columns) |-> input.columns[i].name] >>
                                   \o input.data)]
    /\ lastCall' = Call("create", name, Empty, NoQuery, FALSE)
    /\ result' = NoResult
    /\ UNCHANGED <<connections, activeConnection, nextId, pending>>

\* SimpleQueryEngine.dropTable(name)
DropTable(name) ==
  /\ tables' = dropTable(tables, name)
  /\ lastOp' = [lastOp EXCEPT ![name] = Op("drop", Empty)]
  /\ lastCall' = Call("drop", name, Empty, NoQuery, FALSE)
  /\ result' = NoResult
  /\ UNCHANGED <<connections, activeConnection, nextId, pending>>

\* executeQuery that empties the store when the statement fails
ExecuteQueryClearingOnError(q) ==
  /\ \E sql \in {StatementText(q)} :
       \E r \in {executeQuery(tables, connections, activeConnection, sql)} :
         /\ result' = r
         /\ tables' = IF r.status = "error" THEN Empty ELSE tables
  /\ lastCall' = Call("query", Empty, Empty, q, FALSE)
  /\ UNCHANGED <<connections, activeConnection, nextId, lastOp, pending>>

\* databaseService.executeQuery(query), awaited
ExecuteQuery(q) ==
  /\ \E sql \in {StatementText(q)} :
       result' = executeQuery(tables, connections, activeConnection, sql)
  /\ lastCall' = Call("query", Empty, Empty, q, FALSE)
  /\ UNCHANGED <<tables, connections, activeConnection, nextId, lastOp, pending>>

\* the store's operations, under every table name
Next ==
  \/ \E name \in TableNames, csvData \in CsvInputs, lenient \in BOOLEAN :
       ImportCsvData(name, csvData, lenient)
  \/ \E name \in TableNames, input \in CreateInputs : CreateTable(name, input)
  \/ \E name \in TableNames : DropTable(name)

Spec == Init /\ [][Next]_vars

(***************************************************************************)
(* Statements against one table name: imports and drops of table t, and    *)
(* SELECT statements that name it or a table that is not stored.           *)
(***************************************************************************)
\* a column name that ends with the letters of a keyword
ColXfrom == <<"x", "f", "r", "o", "m">>

QueryCsvInputs ==
  {<<h>> \o rows : h \in { <<ColId, ColN>>, <<ColA, ColA>> }, rows \in RowSeqs}

SelectLists ==
  { <<Star>>, <<ColId>>, <<ColN, ColId>>, <<ColId, ColId>>, <<ColUpperId>>,
    <<ColA>>, <<ColXfrom>> }

\* WHERE n = 'a'
WhereNIsA == <<ColN, <<"a">> >>

WhereClauses == {Empty, WhereNIsA}

Limits == {-1} \cup 0..MaxLimit

Queries ==
  {SelectQuery(cols, NameT, Empty, limit) : cols \in SelectLists, limit \in Limits}
    \cup
  {SelectQuery(cols, NameT, WhereNIsA, limit) :
     cols \in {<<Star>>, <<ColN, ColId>>}, limit \in Limits}
    \cup
  {SelectQuery(cols, NameUpperT, where, limit) :
     cols \in {<<Star>>, <<ColXfrom>>}, where \in WhereClauses, limit \in {-1, 0}}

NextQuery ==
  \/ \E csvData \in QueryCsvInputs, lenient \in BOOLEAN :
       ImportCsvData(NameT, csvData, lenient)
  \/ DropTable(NameT)
  \/ \E q \in Queries : ExecuteQuery(q)

SpecQuery == Init /\ [][NextQuery]_vars

(***************************************************************************)
(* Properties of the table store, checked under Spec.                      *)
(***************************************************************************)
\* the table stored under name (the name is stored)
TableOf(name) == tables[TableIndex(tables, name)]

\* the names getTables() returns
Listed == {getTables(tables)[i] : i \in 1..Len(getTables(tables))}

\* C1: after importCsvData of a non-empty B under a name, whatever was imported
\* under that name before, the store holds one table of that name, with exactly
\* the columns derived from B's header row (as many, named by the trimmed
\* headers) and exactly B's data rows in B's order: the table is the one the
\* import of B into an empty store gives, nothing is merged or appended
C1_ReimportReplaces ==
  (lastCall.op = "import" /\ lastCall.csv # Empty) =>
    /\ Cardinality({i \in DOMAIN tables : tables[i].name = lastCall.name}) = 1
    /\ Len(TableOf(lastCall.name).columns) = Len(lastCall.csv[1])
    /\ \A i \in 1..Len(lastCall.csv[1]) :
         TableOf(lastCall.name).columns[i].name = trim(lastCall.csv[1][i])
    /\ TableOf(lastCall.name).rows = Tail(lastCall.csv)
    /\ \E lenient \in BOOLEAN :
         << TableOf(lastCall.name) >>
           = importCsvData(Empty, lastCall.name, lastCall.csv, lenient)

\* a non-empty import B right after a non-empty import A under the same name, A
\* with another header row and more data rows than B
C1_Witness ==
  /\ lastCall.op = "import" /\ lastCall.csv # Empty
  /\ lastCall.replaced

\* C2 as stated: getTables() lists each name once, and lists exactly the names
\* whose most recent operation was a non-empty import or a create
C2_ListedIffLastOpStores ==
  /\ \A i, j \in DOMAIN tables : tables[i].name = tables[j].name => i = j
  /\ Listed = {n \in TableNames :
                 lastOp[n].op \in {"import", "create"} /\ ~lastOp[n].thenEmpty}

\* C2 amended: getTables() lists each name once, and lists exactly the names
\* whose most recent operation other than an import of empty csvData was a
\* non-empty import or a create; a dropped name is absent until stored again
C2_ListedIffLastEffectiveOpStores ==
  /\ \A i, j \in DOMAIN tables : tables[i].name = tables[j].name => i = j
  /\ Listed = {n \in TableNames : lastOp[n].op \in {"import", "create"}}

\* a name dropped and absent, next to a name listed after its import and a later
\* import of empty csvData
C2_Witness ==
  /\ \E n \in TableNames : lastOp[n].op = "drop" /\ n \notin Listed
  /\ \E n \in TableNames :
       lastOp[n].op = "import" /\ lastOp[n].thenEmpty /\ n \in Listed

\* C3: importCsvData with empty csvData raises no error and changes neither the
\* tables (none created, none removed or altered, the one of that name included)
\* nor the connections nor the active connection
C3_EmptyImportIsNoOp ==
  [][(lastCall'.op = "import" /\ lastCall'.csv = Empty) =>
       /\ tables' = tables
       /\ connections' = connections
       /\ activeConnection' = activeConnection
       /\ result'.status # "error"]_vars

\* an import of empty csvData under a name that is stored, with a connection active
C3_Witness ==
  /\ lastCall.op = "import" /\ lastCall.csv = Empty
  /\ HasTable(tables, lastCall.name)
  /\ activeConnection # Null

\* C5: every stored row of every table has as many cells as the table has columns
C5_RowsHaveColumnCount ==
  \A i \in DOMAIN tables : \A r \in DOMAIN tables[i].rows :
    Len(tables[i].rows[r]) = Len(tables[i].columns)

(***************************************************************************)
(* Properties of SELECT statements, checked under SpecQuery.               *)
(***************************************************************************)
\* the last call is databaseService.executeQuery of a SELECT statement
IsQuery == lastCall.op = "query"

\* the rows of table as a SELECT * shows them: one cell per column, by position
AllCells(table) ==
  [r \in 1..Len(table.rows) |->
     [j \in 1..Len(table.columns) |-> CellOr(table.rows[r], j)]]

\* the names in the select list of q that are not names of columns of table
UnknownColumns(q, table) ==
  IF q.cols = <<Star>> THEN {}
  ELSE {q.cols[j] : j \in 1..Len(q.cols)}
         \ {table.columns[i].name : i \in 1..Len(table.columns)}

\* C4: after the import of header row H and data rows R, each row of len(H)
\* cells, under name t, SELECT * FROM t returns the columns H and the rows R
C4_RoundTrip ==
  (/\ IsQuery
   /\ lastCall.q = SelectQuery(<<Star>>, NameT, Empty, -1)
   /\ lastOp[NameT].op = "import"
   /\ \A r \in 2..Len(lastOp[NameT].csv) :
        Len(lastOp[NameT].csv[r]) = Len(lastOp[NameT].csv[1]))
  => /\ result.status = "ok"
     /\ result.columns = lastOp[NameT].csv[1]
     /\ result.rows = Tail(lastOp[NameT].csv)

\* C6: SELECT * FROM t LIMIT n on a table t of k rows returns the first min(n, k)
\* rows of t, in order, each with all columns of t
C6_LimitTakesFirstRows ==
  (/\ IsQuery
   /\ lastCall.q.cols = <<Star>> /\ lastCall.q.table = NameT
   /\ lastCall.q.where = Empty /\ lastCall.q.limit >= 0
   /\ HasTable(tables, NameT))
  => /\ result.status = "ok"
     /\ Len(result.rows) = Min({lastCall.q.limit, Len(TableOf(NameT).rows)})
     /\ result.rows = SubSeq(AllCells(TableOf(NameT)), 1, Len(result.rows))

\* C7: a SELECT whose FROM clause names a table that is not stored fails with the
\* table-not-found error that names that table, whatever its columns, WHERE, LIMIT
C7_MissingTableNamed ==
  (/\ IsQuery
   /\ activeType(connections, activeConnection) = "csv"
   /\ ~HasTable(tables, lastCall.q.table))
  => /\ result.status = "error"
     /\ result.kind = "TableDoesNotExist"
     /\ result.table = lastCall.q.table

\* C8: a SELECT on a stored table t that lists a name that is not, letter case
\* included, the name of a column of t fails with the column-not-found error that
\* names t and such a name
C8_UnknownColumnNamed ==
  (/\ IsQuery
   /\ HasTable(tables, lastCall.q.table)
   /\ UnknownColumns(lastCall.q, TableOf(lastCall.q.table)) # {})
  => /\ result.status = "error"
     /\ result.kind = "ColumnDoesNotExist"
     /\ result.table = lastCall.q.table
     /\ result.column \in UnknownColumns(lastCall.q, TableOf(lastCall.q.table))

\* C9: a successful SELECT on table t returns the columns of t in table order for
\* *, otherwise the names listed, in the order listed, duplicates kept; each
\* result row has a cell per result column, and cell j is the value its source row
\* (row r of t for result row r when there is no WHERE) has in a column of t named
\* by result column j, its absent cell read as the empty string
C9_ProjectionByName ==
  (IsQuery /\ result.status = "ok") =>
    /\ HasTable(tables, lastCall.q.table)
    /\ result.columns = IF lastCall.q.cols = <<Star>>
                          THEN columnNames(TableOf(lastCall.q.table))
                          ELSE lastCall.q.cols
    /\ Len(result.rows) =< Len(TableOf(lastCall.q.table).rows)
    /\ \A r \in 1..Len(result.rows) :
         /\ Len(result.rows[r]) = Len(result.columns)
         /\ \E src \in (IF lastCall.q.where = Empty
                          THEN {r}
                          ELSE 1..Len(TableOf(lastCall.q.table).rows)) :
              \A j \in 1..Len(result.columns) :
                \E i \in 1..Len(TableOf(lastCall.q.table).columns) :
                  /\ TableOf(lastCall.q.table).columns[i].name = result.columns[j]
                  /\ result.rows[r][j]
                       = CellOr(TableOf(lastCall.q.table).rows[src], i)

\* a successful SELECT n, id on a table whose columns are id, n in that order,
\* with a row whose two cells differ
C9_Witness ==
  /\ IsQuery /\ result.status = "ok"
  /\ lastCall.q.cols = <<ColN, ColId>>
  /\ columnNames(TableOf(NameT)) = <<ColId, ColN>>
  /\ Len(result.rows) >= 1
  /\ result.rows[1][1] # result.rows[1][2]

\* C10: SELECT ... FROM t WHERE c = v on the store-backed engine returns only
\* rows of t whose cell in column c equals v, letter case apart
C10_WhereFilters ==
  (/\ IsQuery /\ result.status = "ok"
   /\ lastCall.q.where # Empty
   /\ indexOf(result.columns, lastCall.q.where[1]) # 0)
  => \A r \in 1..Len(result.rows) :
       toLowerCase(result.rows[r][indexOf(result.columns, lastCall.q.where[1])])
         = toLowerCase(lastCall.q.where[2])

(***************************************************************************)
(* CSVQueryEngine, the engine of the csv-query route: loadTable,           *)
(* executeQuery, executeSelect, applyWhereClause.  Its errors:             *)
(*   CsvOnlySelect      "Only SELECT statements are currently supported    *)
(*                       for CSV queries"                                  *)
(*   CsvMissingFrom     "Invalid query: missing FROM clause"               *)
(*   CsvTableNotFound   "Table '<table>' not found"                        *)
(*   CsvColumnNotFound  "Column '<column>' not found"                      *)
(*   QueryRequired      "Query is required and must be a string"           *)
(***************************************************************************)
\* the characters statements and cells are written in
Chars ==
  Digits \cup Uppers \cup Lowers \cup Spaces \cup Quotes
    \cup {"*", ",", "=", "!", ">", "<", "(", ")", ".", "_", "-", "+", ";"}

\* [^']
NotQuote == Chars \ {SingleQuote}

\* a Number: NaN, or num / 10^scale
NaN == [nan |-> TRUE, num |-> 0, scale |-> 0]

Num(num, scale) == [nan |-> FALSE, num |-> num, scale |-> scale]

RECURSIVE Pow10(_)
Pow10(k) == IF k = 0 THEN 1 ELSE 10 * Pow10(k - 1)

\* the value of the d digits of s from index b on
DigitsAt(s, b, d) == With(SubSeq(s, b, b + d - 1), LAMBDA ds : DigitsValue(ds, d))

\* parseFloat: leading white space, a sign, the longest prefix that is a decimal
\* literal (digits, or digits "." digits with either part possibly absent); NaN
\* when that prefix holds no digit.  (No exponent part and no Infinity occur in
\* the strings of the statements and cells drawn.)
parseFloat(s) ==
  With(s, LAMBDA v :
    With(RunLen(v, 1, Spaces) + 1, LAMBDA a :
      With(IF a =< Len(v) /\ v[a] \in {"+", "-"} THEN a + 1 ELSE a, LAMBDA b :
        With(RunLen(v, b, Digits), LAMBDA d :
          With(IF b + d =< Len(v) /\ v[b + d] = "."
                 THEN RunLen(v, b + d + 1, Digits) ELSE 0, LAMBDA f :
            IF d = 0 /\ f = 0 THEN NaN
            ELSE Num((IF b > a /\ v[a] = "-" THEN -1 ELSE 1)
                       * (DigitsAt(v, b, d) * Pow10(f) + DigitsAt(v, b + d + 1, f)),
                     f))))))

\* x < y on Numbers: false when either is NaN
NumLess(x, y) ==
  ~x.nan /\ ~y.nan /\ x.num * Pow10(y.scale) < y.num * Pow10(x.scale)

\* x <= y on Numbers: false when either is NaN
NumLessEq(x, y) ==
  ~x.nan /\ ~y.nan /\ x.num * Pow10(y.scale) =< y.num * Pow10(x.scale)

\* the alternatives of (=|!=|>|<|>=|<=), in the order the regular expression
\* tries them
WhereOps ==
  << <<"=">>, <<"!", "=">>, <<">">>, <<"<">>, <<">", "=">>, <<"<", "=">> >>

\* \s*'?([^']+)'? tried at index r: the third group.  \s* takes k of the sp
\* spaces, most first; '? takes the quote at r + k when there is one, or nothing;
\* [^']+ takes every character up to the next quote and needs one
ConditionValueAt(s, r) ==
  With(RunLen(s, r, Spaces), LAMBDA sp :
    With({c \in (0..sp) \X BOOLEAN :
            /\ c[2] => (r + c[1] =< Len(s) /\ s[r + c[1]] = SingleQuote)
            /\ RunLen(s, r + c[1] + (IF c[2] THEN 1 ELSE 0), NotQuote) >= 1},
         LAMBDA cands :
      IF cands = {} THEN NoMatch
      ELSE With(CHOOSE c \in cands : \A d \in cands :
                  \/ c[1] > d[1]
                  \/ c[1] = d[1] /\ (c[2] \/ ~d[2]),
                LAMBDA c :
             With(r + c[1] + (IF c[2] THEN 1 ELSE 0), LAMBDA start :
               Match(SubSeq(s, start, start + RunLen(s, start, NotQuote) - 1))))))

\* /(\w+)\s*(=|!=|>|<|>=|<=)\s*'?([^']+)'?/ tried at index i: the three groups.
\* \w+ and \s* take all they can (a shorter take leaves a word character or a
\* space where the operator has to begin); the operator is the first alternative
\* that occurs there and lets the rest match
ConditionMatchAt(s, low, i) ==
  With(RunLen(s, i, WordChars), LAMBDA w :
    IF w = 0 THEN NoMatch
    ELSE With(i + w + RunLen(s, i + w, Spaces), LAMBDA p :
           With({o \in 1..Len(WhereOps) :
                   /\ OccursAt(s, WhereOps[o], p)
                   /\ ConditionValueAt(s, p + Len(WhereOps[o])).found},
                LAMBDA ops :
             IF ops = {} THEN NoMatch
             ELSE Match(<< SubSeq(s, i, i + w - 1),
                           WhereOps[Min(ops)],
                           ConditionValueAt(s, p + Len(WhereOps[Min(ops)])).text >>))))

\* whereClause.match(/(\w+)\s*(=|!=|>|<|>=|<=)\s*'?([^']+)'?/)
conditionMatch(s) == With(s, LAMBDA v : Leftmost(v, v, ConditionMatchAt))

\* columns.findIndex((col) => col.toLowerCase() === columnName.toLowerCase())
findIndexIgnoreCase(columns, columnName) ==
  IF \E i \in DOMAIN columns : toLowerCase(columns[i]) = toLowerCase(columnName)
    THEN CHOOSE i \in DOMAIN columns :
           /\ toLowerCase(columns[i]) = toLowerCase(columnName)
           /\ \A j \in 1..(i - 1) : toLowerCase(columns[j]) # toLowerCase(columnName)
    ELSE 0

\* the switch of applyWhereClause's filter
keepsRow(cellValue, operator, value) ==
  CASE operator = <<"=">>      -> toLowerCase(cellValue) = toLowerCase(value)
    [] operator = <<"!", "=">> -> toLowerCase(cellValue) # toLowerCase(value)
    [] operator = <<">">>      -> NumLess(parseFloat(value), parseFloat(cellValue))
    [] operator = <<"<">>      -> NumLess(parseFloat(cellValue), parseFloat(value))
    [] operator = <<">", "=">> -> NumLessEq(parseFloat(value), parseFloat(cellValue))
    [] operator = <<"<", "=">> -> NumLessEq(parseFloat(cellValue), parseFloat(value))
    [] OTHER                   -> TRUE

\* CSVQueryEngine.applyWhereClause: the rows kept, or the error thrown
applyWhereClause(rows, columns, whereClause) ==
  With(conditionMatch(whereClause), LAMBDA cm :
    IF ~cm.found THEN Ok(columns, rows)
    ELSE With(findIndexIgnoreCase(columns, cm.text[1]), LAMBDA columnIndex :
           IF columnIndex = 0 THEN Err("CsvColumnNotFound", Empty, cm.text[1])
           ELSE Ok(columns,
                   SelectSeq(rows, LAMBDA row :
                     keepsRow(CellOr(row, columnIndex), cm.text[2], cm.text[3])))))

\* CSVQueryEngine.loadTable: the table is stored under its name in lower case
loadTable(tbls, table) ==
  MapSet(tbls, [name |-> toLowerCase(table.name),
                columns |-> table.columns,
                data |-> table.data])

\* tables.forEach((table) => queryEngine.loadTable(table)), the first n tables
RECURSIVE loadTables(_, _)
loadTables(csvTables, n) ==
  IF n = 0 THEN Empty ELSE loadTable(loadTables(csvTables, n - 1), csvTables[n])

\* /from\s+(\w+)/ tried at index i
CsvFromMatchAt(s, low, i) ==
  IF ~OccursAt(s, KwFrom, i) THEN NoMatch
  ELSE With(RunLen(s, i + 4, Spaces), LAMBDA ws :
         With(RunLen(s, i + 4 + ws, WordChars), LAMBDA w :
           IF ws > 0 /\ w > 0
             THEN Match(SubSeq(s, i + 4 + ws, i + 3 + ws + w))
             ELSE NoMatch))

\* normalizedQuery.match(/from\s+(\w+)/): fromMatch[1]
csvFromMatch(s) == With(s, LAMBDA v : Leftmost(v, v, CsvFromMatchAt))

KwWhere == <<"w", "h", "e", "r", "e">>

KwOrder == <<"o", "r", "d", "e", "r">>

KwBy == <<"b", "y">>

\* (?:\s+order\s+by|\s+limit|$) right after index e
WhereEndsAt(s, e) ==
  \/ e = Len(s)
  \/ With(RunLen(s, e + 1, Spaces), LAMBDA sp :
       /\ sp > 0
       /\ \/ OccursAt(s, KwLimit, e + 1 + sp)
          \/ /\ OccursAt(s, KwOrder, e + 1 + sp)
             /\ RunLen(s, e + 6 + sp, Spaces) > 0
             /\ OccursAt(s, KwBy, e + 6 + sp + RunLen(s, e + 6 + sp, Spaces)))

\* /where\s+(.+?)(?:\s+order\s+by|\s+limit|$)/ tried at index i: the group.
\* \s+ takes k spaces, most first; .+? ends at the first index the rest matches
WhereMatchAt(s, low, i) ==
  IF ~OccursAt(s, KwWhere, i) THEN NoMatch
  ELSE
    With(RunLen(s, i + 5, Spaces), LAMBDA ws :
      With({c \in (1..ws) \X ((i + 6)..Len(s)) :
              /\ c[2] >= i + 5 + c[1]
              /\ \A j \in (i + 5 + c[1])..c[2] : s[j] \notin LineTerminators
              /\ WhereEndsAt(s, c[2])},
           LAMBDA cands :
        IF cands = {} THEN NoMatch
        ELSE With(CHOOSE c \in cands : \A d \in cands :
                    \/ c[1] > d[1]
                    \/ c[1] = d[1] /\ c[2] =< d[2],
                  LAMBDA c : Match(SubSeq(s, i + 5 + c[1], c[2])))))

\* normalizedQuery.match(/where\s+(.+?)(?:\s+order\s+by|\s+limit|$)/): whereMatch[1]
whereMatch(s) == With(s, LAMBDA v : Leftmost(v, v, WhereMatchAt))

\* the part of CSVQueryEngine.executeSelect after the table is found
csvSelectFromTable(table, normalizedQuery) ==
  With([i \in 1..Len(table.columns) |-> table.columns[i].name], LAMBDA columns :
    With(whereMatch(normalizedQuery), LAMBDA wm :
      With(IF wm.found
             THEN applyWhereClause(table.data, columns, trim(wm.text))
             ELSE Ok(columns, table.data),
           LAMBDA filtered :
        IF filtered.status = "error" THEN filtered
        ELSE Ok(columns, applyLimit(filtered.rows, normalizedQuery)))))

\* CSVQueryEngine.executeSelect
csvExecuteSelect(tbls, query) ==
  With(toLowerCase(query), LAMBDA normalizedQuery :
    With(csvFromMatch(normalizedQuery), LAMBDA fm :
      IF ~fm.found THEN Err("CsvMissingFrom", Empty, Empty)
      ELSE IF ~HasTable(tbls, fm.text) THEN Err("CsvTableNotFound", fm.text, Empty)
      ELSE With(tbls[TableIndex(tbls, fm.text)], LAMBDA table :
             csvSelectFromTable(table, normalizedQuery))))

\* CSVQueryEngine.executeQuery
csvExecuteQuery(tbls, query) ==
  With(toLowerCase(trim(query)), LAMBDA normalizedQuery :
    IF startsWith(normalizedQuery, KwSelect) THEN csvExecuteSelect(tbls, query)
    ELSE Err("CsvOnlySelect", Empty, Empty))

\* the route's POST handler: the body of its response (status 200, 400 or 500)
POST(query, csvTables) ==
  IF query = Empty THEN Err("QueryRequired", Empty, Empty)
  ELSE csvExecuteQuery(loadTables(csvTables, Len(csvTables)), query)

(***************************************************************************)
(* The csv-query route: requests to POST, and calls of applyWhereClause.   *)
(***************************************************************************)
\* the most rows of the table a condition is applied to
MaxWhereRows == 2

ColC == <<"c">>

\* cells: integers of one and two digits, and a cell that is no number
WhereCells == { <<"3">>, <<"5">>, <<"1", "0">>, <<"a", "b", "c">> }

\* tables of one column: every sequence of at most MaxWhereRows one-cell rows
WhereRowSeqs ==
  UNION { [1..k -> {<< c >> : c \in WhereCells}] : k \in 0..MaxWhereRows }

\* conditions column operator literal
Conditions == { << ColC, WhereOps[o], <<"5">> >> : o \in 1..Len(WhereOps) }

\* CSVQueryEngine.applyWhereClause(rows, columns, whereClause)
ApplyWhereClause(rows, columns, cond) ==
  /\ \E whereClause \in {RenderCondition(cond)} :
       result' = applyWhereClause(rows, columns, whereClause)
  /\ lastCall' = Call("where", Empty, << columns >> \o rows, WhereQuery(cond), FALSE)
  /\ UNCHANGED <<tables, connections, activeConnection, nextId, lastOp, pending>>

NameUsers == <<"U", "s", "e", "r", "s">>

NameUsersLower == <<"u", "s", "e", "r", "s">>

\* a table with a data row shorter than its columns
UsersTable ==
  [name |-> NameUsers,
   columns |-> << [name |-> ColId, type |-> "INTEGER"], [name |-> ColN, type |-> "TEXT"] >>,
   data |-> << << <<"1">>, <<"a">> >>, << <<"2">> >> >>]

\* a table whose name differs from UsersTable's in letter case only
UsersLowerTable ==
  [name |-> NameUsersLower,
   columns |-> << [name |-> ColId, type |-> "INTEGER"] >>,
   data |-> << << <<"9">> >> >>]

\* the tables of a request body
PostTables ==
  { Empty, << UsersTable >>, << UsersLowerTable >>,
    << UsersTable, UsersLowerTable >>, << UsersLowerTable, UsersTable >> }

TextInsert ==
  <<"I", "N", "S", "E", "R", "T", " ", "I", "N", "T", "O", " ", "u", "s", "e",
    "r", "s", " ", "V", "A", "L", "U", "E", "S", " ", "(", "1", ")">>

TextDropTable ==
  <<"D", "R", "O", "P", " ", "T", "A", "B", "L", "E", " ", "u", "s", "e", "r",
    "s">>

TextDelete ==
  <<"D", "E", "L", "E", "T", "E", " ", "F", "R", "O", "M", " ", "u", "s", "e",
    "r", "s">>

TextUpdate ==
  <<"U", "P", "D", "A", "T", "E", " ", "u", "s", "e", "r", "s", " ", "S", "E",
    "T", " ", "i", "d", " ", "=", " ", "1">>

\* statements that are no SELECT
NonSelectTexts == {Empty, TextInsert, TextDropTable, TextDelete, TextUpdate}

PostQueries ==
  {SelectOpQuery(<<Star>>, name, where, limit) :
     name \in {NameUsers, NameUsersLower},
     where \in {Empty, <<ColId, <<"=">>, <<"1">> >>, <<ColId, <<">", "=">>, <<"1">> >>},
     limit \in {-1, 1}}
    \cup {RawQuery(text) : text \in NonSelectTexts}

\* a request to the route: POST with body { query, tables }
Post(q, csvTables) ==
  /\ \E query \in {StatementText(q)} : result' = POST(query, csvTables)
  /\ lastCall' = Call("post", Empty, csvTables, q, FALSE)
  /\ UNCHANGED <<tables, connections, activeConnection, nextId, lastOp, pending>>

NextRoute ==
  \/ \E rows \in WhereRowSeqs, cond \in Conditions :
       ApplyWhereClause(rows, << ColC >>, cond)
  \/ \E q \in PostQueries, csvTables \in PostTables : Post(q, csvTables)

SpecRoute == Init /\ [][NextRoute]_vars

(***************************************************************************)
(* Properties of the csv-query route, checked under SpecRoute.             *)
(***************************************************************************)
\* what the comparison of an integer-valued cell with an integer literal gives;
\* a cell that is no integer is unequal to the literal and fails the order tests
ComparesTrue(cell, operator, literal) ==
  IF IsAllDigits(cell)
    THEN CASE operator = <<"=">>      -> parseInt(cell) = parseInt(literal)
           [] operator = <<"!", "=">> -> parseInt(cell) # parseInt(literal)
           [] operator = <<">">>      -> parseInt(cell) > parseInt(literal)
           [] operator = <<"<">>      -> parseInt(cell) < parseInt(literal)
           [] operator = <<">", "=">> -> parseInt(cell) >= parseInt(literal)
           [] operator = <<"<", "=">> -> parseInt(cell) =< parseInt(literal)
    ELSE operator = <<"!", "=">>

\* C11: applyWhereClause with each of =, !=, >, <, >=, <= on integer-valued cells
\* and an integer literal keeps exactly the rows whose cell compares true with
\* the literal, and drops a cell that is no number under >, <, >=, <=
C11_WhereOperators ==
  lastCall.op = "where" =>
    /\ result.status = "ok"
    /\ result.rows =
         SelectSeq(Tail(lastCall.csv), LAMBDA row :
           ComparesTrue(row[1], lastCall.q.where[2], lastCall.q.where[3]))

(***************************************************************************)
(* Statements of every kind against the store of tables t and T.           *)
(***************************************************************************)
TextShowTables ==
  <<"S", "H", "O", "W", " ", "T", "A", "B", "L", "E", "S">>

TextSelectMaster ==
  <<"S", "E", "L", "E", "C", "T", " ", "n", "a", "m", "e", " ", "F", "R", "O",
    "M", " ", "s", "q", "l", "i", "t", "e", "_", "m", "a", "s", "t", "e", "r">>

TextForeignKeys ==
  <<"P", "R", "A", "G", "M", "A", " ", "f", "o", "r", "e", "i", "g", "n", "_",
    "k", "e", "y", "s">>

TextPragmaMaster ==
  <<"p", "r", "a", "g", "m", "a", " ", "s", "q", "l", "i", "t", "e", "_",
    "m", "a", "s", "t", "e", "r">>

\* statement texts: table lists, PRAGMAs that are no table_info, and texts that
\* are no SELECT, no PRAGMA and no table list
StatementTexts ==
  {TextShowTables, TextSelectMaster, TextForeignKeys, TextPragmaMaster}
    \cup NonSelectTexts

\* CSV data of the statement specification: an id column first, and none
StatementCsvInputs ==
  { << <<ColId, ColN>>, << <<"1">>, <<"a">> >> >>,
    << <<ColA, ColA>>, << <<"2">> >> >>,
    Empty }

Statements ==
  {PragmaQuery(name) : name \in TableNames}
    \cup {RawQuery(text) : text \in StatementTexts}
    \cup {SelectQuery(cols, NameT, Empty, -1) : cols \in {<<Star>>, <<ColXfrom>>}}

NextStatement ==
  \/ \E name \in TableNames, csvData \in StatementCsvInputs, lenient \in BOOLEAN :
       ImportCsvData(name, csvData, lenient)
  \/ \E name \in TableNames, input \in CreateInputs : CreateTable(name, input)
  \/ \E name \in TableNames : DropTable(name)
  \/ \E q \in Statements : ExecuteQuery(q)

SpecStatement == Init /\ [][NextStatement]_vars

(***************************************************************************)
(* Properties of statements, checked under SpecStatement.                  *)
(***************************************************************************)
\* the last call is a statement run with the CSV connection active
IsStatement == lastCall.op = "query" /\ activeType(connections, activeConnection) = "csv"

\* C12: PRAGMA table_info(t) of a stored table t returns the columns cid, name,
\* type, notnull, dflt_value, pk and one row per column of t in column order: its
\* 1st field the column's position, its 2nd the column's name, its 4th "0", its
\* 5th empty, its 6th "1" when the column is flagged primary key and "0" otherwise
C12_PragmaTableInfo ==
  (IsStatement /\ lastCall.q.kind = "pragma" /\ HasTable(tables, lastCall.q.table)) =>
    /\ result.status = "ok"
    /\ result.columns = PragmaColumns
    /\ Len(result.rows) = Len(TableOf(lastCall.q.table).columns)
    /\ \A i \in DOMAIN result.rows :
         /\ Len(result.rows[i]) = 6
         /\ result.rows[i][1] = << DigitSeq[i] >>
         /\ result.rows[i][2] = TableOf(lastCall.q.table).columns[i].name
         /\ result.rows[i][4] = <<"0">>
         /\ result.rows[i][5] = Empty
         /\ result.rows[i][6] \in {<<"0">>, <<"1">>}
         /\ result.rows[i][6] = <<"1">> <=> TableOf(lastCall.q.table).columns[i].primaryKey

\* a PRAGMA table_info of a table of two columns, the first one flagged
C12_Witness ==
  /\ IsStatement /\ lastCall.q.kind = "pragma" /\ HasTable(tables, lastCall.q.table)
  /\ Len(result.rows) = 2
  /\ result.rows[1][6] = <<"1">>
  /\ result.rows[2][6] = <<"0">>

\* the text of the last statement, in lower case
LastTextLower == toLowerCase(StatementText(lastCall.q))

\* the last statement's text contains show tables or sqlite_master
NamesTableList ==
  includes(LastTextLower, KwShowTables) \/ includes(LastTextLower, KwSqliteMaster)

\* C13: every statement whose text contains show tables or sqlite_master, in any
\* letter case and whatever keyword it starts with, returns the one column name
\* and one row per table of the store, holding the table's name
C13_TableListStatements ==
  (IsStatement /\ NamesTableList) =>
    /\ result.status = "ok"
    /\ result.columns = NameColumn
    /\ result.rows = [i \in 1..Len(tables) |-> << tables[i].name >>]

\* the statement q is no SELECT, no PRAGMA table_info and no table list
IsUnsupported(q) ==
  With(StatementText(q), LAMBDA text :
    With(toLowerCase(trim(text)), LAMBDA low :
      /\ ~startsWith(low, KwSelect)
      /\ ~pragmaMatch(text).found
      /\ ~includes(low, KwShowTables)
      /\ ~includes(low, KwSqliteMaster)))

\* C14: a statement that is no SELECT, no PRAGMA table_info and holds neither show
\* tables nor sqlite_master fails with the unsupported-query error, and the tables
\* are after it what they were before it
C14_UnsupportedFails ==
  [][(lastCall'.op = "query" /\ IsUnsupported(lastCall'.q)
        /\ activeType(connections, activeConnection) = "csv") =>
       /\ result'.status = "error"
       /\ result'.kind = "NotSupported"
       /\ tables' = tables]_vars

(***************************************************************************)
(* Column type detection on its own: detectColumnType applied to columns   *)
(* of cell values.                                                         *)
(***************************************************************************)
\* the most values of a short column
MaxValues == 2

CellAbc == <<"a", "b", "c">>

\* cells: empty, blank, integers (one with white space around it), decimals,
\* a calendar date, a date of no calendar, a word
TypeCells ==
  { Empty, <<" ">>, <<"2">>, <<"1", "2">>, <<" ", "7", " ">>, <<"1", ".", "5">>,
    <<".", "5">>, <<"2", "0", "2", "0", "-", "0", "1", "-", "1", "5">>,
    <<"2", "0", "2", "0", "-", "0", "2", "-", "3", "0">>, CellAbc }

\* columns of as many integers as detectColumnType inspects, or one fewer, then a
\* word or a decimal; the first of them after an empty cell
LongColumns ==
  { [i \in 1..n |-> <<"1">>] \o << last >> :
      n \in {SampleLimit - 1, SampleLimit}, last \in {CellAbc, <<"1", ".", "5">>} }
    \cup { << Empty >> \o [i \in 1..SampleLimit |-> <<"1">>] \o << CellAbc >> }

TypeInputs == UNION { [1..k -> TypeCells] : k \in 0..MaxValues } \cup LongColumns

\* detectColumnType(values) to be called ("input") or called ("detect"); lenient
\* is what Date.parse does with the strings it need not parse
TypeCall(op, values, lenient) ==
  [op |-> op, name |-> Empty, csv |-> << values >>, q |-> NoQuery,
   replaced |-> FALSE, lenient |-> lenient]

\* the tag detectColumnType returned
TypeResult(tag) == [NoResult EXCEPT !.status = "type", !.kind = tag]

\* an empty store and a column of values to classify
InitTypes ==
  /\ tables = Empty
  /\ connections = Empty
  /\ activeConnection = Null
  /\ nextId = 1
  /\ pending = Empty
  /\ lastOp = [n \in TableNames |-> NoOp]
  /\ \E values \in TypeInputs, lenient \in BOOLEAN :
       lastCall = TypeCall("input", values, lenient)
  /\ result = NoResult

\* this.detectColumnType(values)
DetectColumnType ==
  /\ lastCall.op = "input"
  /\ \E tag \in {detectColumnType(lastCall.csv[1], lastCall.lenient)} :
       result' = TypeResult(tag)
  /\ lastCall' = [lastCall EXCEPT !.op = "detect"]
  /\ UNCHANGED <<tables, connections, activeConnection, nextId, lastOp, pending>>

NextTypes == DetectColumnType

SpecTypes == InitTypes /\ [][NextTypes]_vars

(***************************************************************************)
(* Properties of column type detection, checked under SpecTypes.           *)
(***************************************************************************)
TypeTags == {"INTEGER", "REAL", "DATETIME", "TEXT"}

\* the values of the last call that are neither empty nor white space only
NonBlank == SelectSeq(lastCall.csv[1], LAMBDA v : trim(v) # Empty)

\* the reference rule on a column of values none of which is blank
ReferenceType(column, lenient) ==
  CASE column = Empty -> "TEXT"
    [] column # Empty /\ \A i \in DOMAIN column : IsAllDigits(trim(column[i])) -> "INTEGER"
    [] column # Empty /\ (\E i \in DOMAIN column : ~IsAllDigits(trim(column[i])))
         /\ \A i \in DOMAIN column : IsDecimal(trim(column[i])) -> "REAL"
    [] column # Empty /\ (\E i \in DOMAIN column : ~IsDecimal(trim(column[i])))
         /\ \A i \in DOMAIN column : dateParses(column[i], lenient) -> "DATETIME"
    [] OTHER -> "TEXT"

\* C15 as stated: detectColumnType returns what the reference rule gives for all
\* the values that are not blank
C15_AgreesWithReference ==
  lastCall.op = "detect" =>
    result.kind = ReferenceType(NonBlank, lastCall.lenient)

\* C15: detectColumnType returns what the reference rule gives for the first 100
\* of the values that are not blank: TEXT for none, else INTEGER when all are all
\* digits, else REAL when all are digits with an optional decimal point, else
\* DATETIME when all parse as a date, else TEXT.  It returns one of the four tags,
\* never REAL for a column of integers, and TEXT for the column abc, 2
C15_AgreesWithReferenceOfSample ==
  lastCall.op = "detect" =>
    /\ result.status = "type"
    /\ result.kind \in TypeTags
    /\ result.kind = ReferenceType(Take(NonBlank, SampleLimit), lastCall.lenient)
    /\ (NonBlank # Empty /\ \A i \in DOMAIN NonBlank : IsAllDigits(trim(NonBlank[i])))
         => result.kind = "INTEGER"
    /\ lastCall.csv[1] = << CellAbc, <<"2">> >> => result.kind = "TEXT"

\* a column of 100 integers and then a word, classified by its first 100 values
C15_Witness ==
  /\ lastCall.op = "detect"
  /\ Len(NonBlank) = 101
  /\ NonBlank[101] = CellAbc
  /\ result.kind = "INTEGER"

(***************************************************************************)
(* Properties of the primary-key flag, checked under Spec.                 *)
(***************************************************************************)
\* the positions of the columns of a table that are flagged primary key
Flagged(table) == {i \in DOMAIN table.columns : table.columns[i].primaryKey}

\* C16: in every stored table a column is flagged primary key only if it is the
\* first column and its name contains id in some letter case; so at most one
\* column of a table is flagged, and none after the first
C16_OnlyFirstIdColumnFlagged ==
  \A t \in DOMAIN tables :
    /\ \A i \in Flagged(tables[t]) :
         /\ i = 1
         /\ \E k \in 1..(Len(tables[t].columns[i].name) - 1) :
              /\ tables[t].columns[i].name[k] \in {"i", "I"}
              /\ tables[t].columns[i].name[k + 1] \in {"d", "D"}
    /\ Cardinality(Flagged(tables[t])) =< 1

\* an imported table with its first column id flagged, beside a created table
\* whose column id in second place is not flagged
C16_Witness ==
  /\ Len(tables) = 2
  /\ \E t, u \in DOMAIN tables :
       /\ lastOp[tables[t].name].op = "import"
       /\ tables[t].columns[1].name = ColId
       /\ Flagged(tables[t]) = {1}
       /\ lastOp[tables[u].name].op = "create"
       /\ Len(tables[u].columns) = 2
       /\ tables[u].columns[2].name = ColId
       /\ Flagged(tables[u]) = {}

(***************************************************************************)
(* Properties of executeQuery as a whole, checked under SpecStatement.     *)
(***************************************************************************)
\* C17: executeQuery is read-only: whatever the statement (SELECT, PRAGMA, table
\* list, unsupported, malformed) and whether it succeeds or fails, the tables with
\* their columns and rows, the connections and the active connection are after
\* the call what they were before it
C17_QueryIsReadOnly ==
  [][lastCall'.op = "query" =>
       /\ tables' = tables
       /\ connections' = connections
       /\ activeConnection' = activeConnection]_vars

\* a statement that failed in the engine while two tables were stored
C17_Witness ==
  /\ IsStatement
  /\ result.status = "error"
  /\ result.wrapped
  /\ Len(tables) = 2

(***************************************************************************)
(* Properties of failing SELECT statements, checked under SpecQuery.       *)
(***************************************************************************)
\* C18: a query succeeds with a result and no error, or fails with one error and
\* neither columns nor rows; a SELECT on a stored table that lists a name that is
\* no column of the table fails, whatever the number of rows of the table and
\* whatever the LIMIT (no row, LIMIT 0), and returns no column and no row
C18_FailsAsAWhole ==
  IsQuery =>
    /\ result.status \in {"ok", "error"}
    /\ result.status = "ok" => result.kind = ""
    /\ result.status = "error" =>
         result.kind # "" /\ result.columns = Empty /\ result.rows = Empty
    /\ (/\ HasTable(tables, lastCall.q.table)
        /\ UnknownColumns(lastCall.q, TableOf(lastCall.q.table)) # {})
       => result.status = "error" /\ result.columns = Empty /\ result.rows = Empty

\* a SELECT with LIMIT 0 of a column and of a name that is no column, on a stored
\* table with no row, failed
C18_Witness ==
  /\ IsQuery
  /\ HasTable(tables, lastCall.q.table)
  /\ TableOf(lastCall.q.table).rows = Empty
  /\ lastCall.q.limit = 0
  /\ lastCall.q.cols = <<ColN, ColId>>
  /\ UnknownColumns(lastCall.q, TableOf(lastCall.q.table)) = {ColN, ColId}
  /\ result.status = "error"
  /\ result.kind = "ColumnDoesNotExist"

(***************************************************************************)
(* Properties of the results of the csv-query route, checked under         *)
(* SpecRoute.                                                              *)
(***************************************************************************)
\* the last call is a request to the route
IsPost == lastCall.op = "post"

\* C19: every successful SELECT returns rows of as many cells as the result has
\* columns, a cell that a short stored row lacks being the empty string
C19_ResultWellFormed ==
  (IsPost /\ result.status = "ok") =>
    \A r \in DOMAIN result.rows : Len(result.rows[r]) = Len(result.columns)

\* the tables of the last request that are named name, letter case included
NamedExactly(name) ==
  SelectSeq(lastCall.csv, LAMBDA table : table.name = name)

\* C20: table names are case-sensitive and unique within a store: of two tables
\* stored under names that differ in letter case only, a SELECT * by the exact
\* name of either returns that table's columns and rows
C20_NamesCaseSensitive ==
  (/\ IsPost
   /\ lastCall.q.kind = "selectop"
   /\ lastCall.q.where = Empty /\ lastCall.q.limit < 0
   /\ Len(lastCall.csv) = 2
   /\ Len(NamedExactly(lastCall.q.table)) = 1)
  => /\ result.status = "ok"
     /\ result.columns =
          [i \in 1..Len(NamedExactly(lastCall.q.table)[1].columns) |->
             NamedExactly(lastCall.q.table)[1].columns[i].name]
     /\ Len(result.rows) = Len(NamedExactly(lastCall.q.table)[1].data)
     /\ \A r \in DOMAIN result.rows :
          \A j \in DOMAIN result.rows[r] :
            result.rows[r][j] = CellOr(NamedExactly(lastCall.q.table)[1].data[r], j)

(***************************************************************************)
(* Properties of WHERE with LIMIT, checked under SpecQuery.                *)
(***************************************************************************)
\* the rows of table whose cell in the column named where[1] equals where[2],
\* letter case apart, in table order
MatchingRows(table, where) ==
  SelectSeq(table.rows, LAMBDA row :
    toLowerCase(CellOr(row, indexOf(columnNames(table), where[1])))
      = toLowerCase(where[2]))

\* C21: SELECT * FROM t WHERE c = v LIMIT n returns the first n of the rows of t
\* that satisfy the condition, in table order: the limit is applied after the
\* filter
C21_LimitAfterFilter ==
  (/\ IsQuery /\ result.status = "ok"
   /\ lastCall.q.cols = <<Star>>
   /\ lastCall.q.where # Empty /\ lastCall.q.limit >= 0
   /\ HasTable(tables, lastCall.q.table)
   /\ indexOf(columnNames(TableOf(lastCall.q.table)), lastCall.q.where[1]) # 0)
  => result.rows =
       AllCells([TableOf(lastCall.q.table) EXCEPT
                   !.rows = Take(MatchingRows(TableOf(lastCall.q.table), lastCall.q.where),
                                 lastCall.q.limit)])

\* the first 100 of the values of column that are neither empty nor white space
SampleOf(column) == Take(SelectSeq(column, LAMBDA v : trim(v) # Empty), SampleLimit)

\* C22: type inference inspects only the first 100 non-empty values of a column:
\* a column with the same first 100 non-empty values as the column of the last
\* call (those 100 values alone, or a longer column) gets the type the last call
\* returned, whatever values follow; so two columns with the same first 100
\* non-empty values get the same type
C22_SameSampleSameType ==
  lastCall.op = "detect" =>
    \A other \in LongColumns \cup {SampleOf(lastCall.csv[1])} :
      SampleOf(other) = SampleOf(lastCall.csv[1])
        => detectColumnType(other, lastCall.lenient) = result.kind

\* a column of 100 integers and then a decimal, classified INTEGER as the column
\* of 100 integers and then a word is
C22_Witness ==
  /\ lastCall.op = "detect"
  /\ Len(lastCall.csv[1]) = SampleLimit + 1
  /\ lastCall.csv[1][SampleLimit + 1] = <<"1", ".", "5">>
  /\ result.kind = "INTEGER"
  /\ \E other \in LongColumns :
       /\ other # lastCall.csv[1]
       /\ SampleOf(other) = SampleOf(lastCall.csv[1])

(***************************************************************************)
(* Who owns the arrays: the caller keeps csvData after importCsvData       *)
(* returns and keeps the result of a query.  importCsvData stores          *)
(* csvData.slice(1), a new array of the caller's row arrays, so right      *)
(* after the import of csvData under a name, row i of the stored table and *)
(* csvData[i] are one array; lastCall.csv is the caller's csvData.         *)
(***************************************************************************)
\* the most rows the caller's csvData grows to, header row included
MaxCallerRows == 3

CellZ == <<"z">>

\* CSV data with distinct column names and rows as long as the header row
OwnedCsvInputs ==
  { << <<ColId, ColN>>, << <<"1">>, <<"a">> >> >>,
    << <<ColId, ColN>>, << <<"1">>, <<"a">> >>, << <<"2">>, <<"b">> >> >> }

\* the caller holds the csvData of the last import
HoldsCsvData ==
  /\ lastCall.op \in {"import", "write", "push"}
  /\ Len(lastCall.csv) > 0

\* the caller's csvData[r][c] = v, r and c counted from 1: the row array is
\* the stored table's row r - 1 when csvData[r] was imported as a data row
WriteCallerCell(r, c, v) ==
  /\ HoldsCsvData
  /\ r \in DOMAIN lastCall.csv
  /\ c \in DOMAIN lastCall.csv[r]
  /\ lastCall' = [lastCall EXCEPT !.op = "write", !.csv[r][c] = v]
  /\ tables' =
       IF r >= 2 /\ r - 1 =< Len(TableOf(lastCall.name).rows)
         THEN [tables EXCEPT ![TableIndex(tables, lastCall.name)].rows[r - 1][c] = v]
         ELSE tables
  /\ UNCHANGED <<connections, activeConnection, nextId, lastOp, result, pending>>

\* the caller's csvData.push(row): the stored rows are another array
PushCallerRow(row) ==
  /\ HoldsCsvData
  /\ Len(lastCall.csv) < MaxCallerRows
  /\ lastCall' = [lastCall EXCEPT !.op = "push", !.csv = Append(@, row)]
  /\ UNCHANGED <<tables, connections, activeConnection, nextId, lastOp, result, pending>>

\* the caller's result.rows[r][c] = v on the result of a query: executeSelect
\* built the result's arrays with map
WriteResultCell(r, c, v) ==
  /\ lastCall.op \in {"query", "writeresult"}
  /\ result.status = "ok"
  /\ r \in DOMAIN result.rows
  /\ c \in DOMAIN result.rows[r]
  /\ result' = [result EXCEPT !.rows[r][c] = v]
  /\ lastCall' = [lastCall EXCEPT !.op = "writeresult"]
  /\ UNCHANGED <<tables, connections, activeConnection, nextId, lastOp, pending>>

NextOwned ==
  \/ \E csvData \in OwnedCsvInputs, lenient \in BOOLEAN :
       ImportCsvData(NameT, csvData, lenient)
  \/ \E r \in 1..MaxCallerRows, c \in 1..2 : WriteCallerCell(r, c, CellZ)
  \/ PushCallerRow(<< <<"3">>, <<"c">> >>)
  \/ \E r \in 1..MaxCallerRows, c \in 1..2 : WriteResultCell(r, c, CellZ)
  \/ ExecuteQuery(SelectAllFromT)

SpecOwned == Init /\ [][NextOwned]_vars

(***************************************************************************)
(* Properties of the ownership of table data, checked under SpecOwned.     *)
(***************************************************************************)
\* C23: the store alone owns its table data: whatever the caller has written
\* since to csvData, to its row arrays or to a query result, SELECT * on the
\* imported table returns the data rows as they were when importCsvData returned
C23_StoreOwnsTableData ==
  (/\ IsQuery
   /\ lastOp[NameT].op = "import")
  => /\ result.status = "ok"
     /\ result.rows = Tail(lastOp[NameT].csv)

(***************************************************************************)
(* DatabaseService: the connection calls, each awaited before the next.    *)
(***************************************************************************)
\* the most connections the caller adds
MaxConnections == 2

\* the types of connection the caller adds (mysql and sqlite go the way of
\* postgresql everywhere)
ConnectionTypes == {"csv", "postgresql"}

\* setActiveConnection that does not look the id up
setActiveConnectionUnchecked(conns, active, connectionId) ==
  [connections |-> markConnected(conns, connectionId),
   activeConnection |-> connectionId,
   thrown |-> FALSE]

\* setActiveConnection(connectionId): what it leaves, and whether it threw
\* "Connection not found"
setActiveConnection(conns, active, connectionId) ==
  IF ConnIndex(conns, connectionId) = 0
    THEN [connections |-> conns, activeConnection |-> active, thrown |-> TRUE]
    ELSE [connections |-> markConnected(conns, connectionId),
          activeConnection |-> connectionId,
          thrown |-> FALSE]

\* getSchema() threw "<type> connections require backend implementation"
Throws == -1

\* getSchema(): Throws for an active connection that is no csv one, otherwise
\* the number of tables it lists (none without an active connection)
getSchema(tbls, conns, active) ==
  With(activeType(conns, active), LAMBDA type :
    IF type = "none" THEN 0
    ELSE IF type = "csv" THEN Len(getTables(tbls))
    ELSE Throws)

\* initializeCsvDatabase() in a browser (window is defined): csv connections with
\* an empty schema are marked not connected and no connection is active
initializeCsvDatabase(tbls, conns, active) ==
  IF findCsvConnection(conns) # Null /\ getSchema(tbls, conns, active) = 0
    THEN [connections |->
            [i \in 1..Len(conns) |->
               IF conns[i].type = "csv" THEN [conns[i] EXCEPT !.connected = FALSE]
               ELSE conns[i]],
          activeConnection |-> Null]
    ELSE [connections |-> conns, activeConnection |-> active]

\* databaseService.addConnection({ name, type }), awaited
AddConnection(type) ==
  /\ Len(connections) < MaxConnections
  /\ connections' = addConnection(connections, nextId, "User", type)
  /\ nextId' = nextId + 1
  /\ lastCall' = Call("add", Empty, Empty, NoQuery, FALSE)
  /\ result' = NoResult
  /\ UNCHANGED <<tables, activeConnection, lastOp, pending>>

\* databaseService.setActiveConnection(connectionId), awaited
SetActiveConnection(connectionId) ==
  \E r \in {setActiveConnection(connections, activeConnection, connectionId)} :
    /\ connections' = r.connections
    /\ activeConnection' = r.activeConnection
    /\ result' = IF r.thrown THEN Err("ConnectionNotFound", Empty, Empty) ELSE NoResult
    /\ lastCall' = Call("activate", Empty, Empty, NoQuery, FALSE)
    /\ UNCHANGED <<tables, nextId, lastOp, pending>>

\* databaseService.initializeCsvDatabase(), awaited
InitializeCsvDatabase ==
  \E r \in {initializeCsvDatabase(tables, connections, activeConnection)} :
    /\ connections' = r.connections
    /\ activeConnection' = r.activeConnection
    /\ result' = IF getSchema(tables, connections, activeConnection) = Throws
                   /\ findCsvConnection(connections) # Null
                 THEN Err("BackendRequired", Empty, Empty) ELSE NoResult
    /\ lastCall' = Call("initialize", Empty, Empty, NoQuery, FALSE)
    /\ UNCHANGED <<tables, nextId, lastOp, pending>>

\* CSV data of the connection specification: none, and a table of one row
ConnCsvInputs == { Empty, << <<ColId, ColN>>, << <<"1">>, <<"a">> >> >> }

NextConn ==
  \/ \E type \in ConnectionTypes : AddConnection(type)
  \/ \E connectionId \in 1..(MaxConnections + 2) : SetActiveConnection(connectionId)
  \/ InitializeCsvDatabase
  \/ \E csvData \in ConnCsvInputs, lenient \in BOOLEAN :
       ImportCsvData(NameT, csvData, lenient)
  \/ ExecuteQuery(SelectAllFromT)

SpecConn == Init /\ [][NextConn]_vars

(***************************************************************************)
(* Properties of the connections, checked under SpecConn.                  *)
(***************************************************************************)
\* the ids of the connections marked connected
Connected == {connections[i].id : i \in {j \in DOMAIN connections : connections[j].connected}}

\* C24: when the active connection id is not null it is the id of a registered
\* connection, and that connection is marked connected
C24_ActiveIsRegisteredAndConnected ==
  activeConnection # Null =>
    /\ ConnIndex(connections, activeConnection) # 0
    /\ activeConnection \in Connected

\* initializeCsvDatabase left a connection that is no csv one active, beside a
\* csv connection
C24_Witness ==
  /\ lastCall.op = "initialize"
  /\ activeConnection # Null
  /\ activeType(connections, activeConnection) = "postgresql"
  /\ findCsvConnection(connections) # Null

\* C25: at most one connection is marked connected, and it is the active one
C25_OnlyActiveIsConnected ==
  /\ Cardinality(Connected) =< 1
  /\ Connected \subseteq {activeConnection}

\* C26: when importCsvData with csvData that is not empty has completed, the
\* active connection is a registered connection of type csv marked connected,
\* whatever was active before, and an executeQuery that follows goes to the CSV
\* engine
C26_ImportActivatesCsv ==
  [][/\ (lastCall'.op = "import" /\ Len(lastCall'.csv) > 0) =>
          /\ activeType(connections', activeConnection') = "csv"
          /\ activeConnection' \in
               {connections'[i].id : i \in {j \in DOMAIN connections' :
                                              connections'[j].connected}}
     /\ (lastCall.op = "import" /\ Len(lastCall.csv) > 0 /\ lastCall'.op = "query") =>
          result'.kind \notin {"NoActiveConnection", "BackendRequired"}]_vars

\* an import completed while a postgresql connection was active, with a csv
\* connection that was not the first connection
C26_Witness ==
  /\ lastCall.op = "import" /\ Len(lastCall.csv) > 0
  /\ Len(connections) >= 2
  /\ connections[1].type = "postgresql" /\ connections[1].connected
  /\ activeType(connections, activeConnection) = "csv"

(***************************************************************************)
(* DatabaseService: calls that are not awaited.  An async call runs up to  *)
(* its first await that suspends it, other calls run, and it resumes.      *)
(* importCsvData runs through dropTable, createTable and the look-up of    *)
(* the csv connection; with a csv connection registered it also activates  *)
(* it before it is suspended, with none it registers one (addConnection    *)
(* holds no await) and is suspended at await this.addConnection(...), to   *)
(* activate the connection when it resumes.  initializeCsvDatabase is      *)
(* suspended at await this.getSchema() with the csv connections and the    *)
(* schema it has read.                                                     *)
(***************************************************************************)
\* the most calls suspended at a time
MaxInFlight == 2

\* a suspended importCsvData that will activate connection id
PendingImport(id) == [op |-> "import", id |-> id, ids |-> {}, schema |-> 0]

\* a suspended initializeCsvDatabase that has read csv connections ids and a
\* schema of so many tables
PendingInitialize(ids, schema) ==
  [op |-> "initialize", id |-> Null, ids |-> ids, schema |-> schema]

\* pending without its entry i
Resumed(i) == SubSeq(pending, 1, i - 1) \o SubSeq(pending, i + 1, Len(pending))

\* databaseService.importCsvData(fileName, tableName, csvData) up to the await
\* that suspends it
ImportCsvDataBegin(tableName, csvData, lenient) ==
  /\ Len(pending) < MaxInFlight
  /\ \E newTables \in {importCsvData(tables, tableName, csvData, lenient)},
        found \in {findCsvConnection(connections)} :
       /\ tables' = newTables
       /\ IF Len(csvData) = 0
            THEN /\ UNCHANGED <<connections, activeConnection, nextId, pending>>
                 /\ lastOp' = [lastOp EXCEPT ![tableName].thenEmpty = TRUE]
            ELSE /\ lastOp' = [lastOp EXCEPT ![tableName] = Op("import", csvData)]
                 /\ IF found # Null
                      THEN /\ connections' = markConnected(connections, found)
                           /\ activeConnection' = found
                           /\ UNCHANGED <<nextId, pending>>
                      ELSE /\ connections' =
                                addConnection(connections, nextId, "CSV Data", "csv")
                           /\ nextId' = nextId + 1
                           /\ pending' = Append(pending, PendingImport(nextId))
                           /\ UNCHANGED activeConnection
  /\ lastCall' = Call("begin", tableName, csvData, NoQuery, FALSE)
  /\ result' = NoResult

\* importCsvData resumed in ensureCsvConnection: connections.get(csvId), then
\* setActiveConnection
ImportCsvDataResume(i) ==
  /\ i \in DOMAIN pending
  /\ pending[i].op = "import"
  /\ \E r \in {setActiveConnection(connections, activeConnection, pending[i].id)} :
       /\ connections' = r.connections
       /\ activeConnection' = r.activeConnection
  /\ pending' = Resumed(i)
  /\ lastCall' = Call("resume", Empty, Empty, NoQuery, FALSE)
  /\ result' = NoResult
  /\ UNCHANGED <<tables, nextId, lastOp>>

\* databaseService.initializeCsvDatabase() up to await this.getSchema()
InitializeCsvDatabaseBegin ==
  /\ Len(pending) < MaxInFlight
  /\ \E schema \in {getSchema(tables, connections, activeConnection)} :
       /\ pending' =
            IF findCsvConnection(connections) # Null /\ schema # Throws
              THEN Append(pending,
                     PendingInitialize(
                       {connections[i].id :
                          i \in {j \in DOMAIN connections : connections[j].type = "csv"}},
                       schema))
              ELSE pending
       /\ result' = IF findCsvConnection(connections) # Null /\ schema = Throws
                      THEN Err("BackendRequired", Empty, Empty) ELSE NoResult
  /\ lastCall' = Call("initialize", Empty, Empty, NoQuery, FALSE)
  /\ UNCHANGED <<tables, connections, activeConnection, nextId, lastOp>>

\* initializeCsvDatabase resumed: with the schema it read empty, the csv
\* connections it read are marked not connected and no connection is active
InitializeCsvDatabaseResume(i) ==
  /\ i \in DOMAIN pending
  /\ pending[i].op = "initialize"
  /\ IF pending[i].schema = 0
       THEN /\ connections' =
                 [k \in 1..Len(connections) |->
                    IF connections[k].id \in pending[i].ids
                      THEN [connections[k] EXCEPT !.connected = FALSE]
                      ELSE connections[k]]
            /\ activeConnection' = Null
       ELSE UNCHANGED <<connections, activeConnection>>
  /\ pending' = Resumed(i)
  /\ lastCall' = Call("resume", Empty, Empty, NoQuery, FALSE)
  /\ result' = NoResult
  /\ UNCHANGED <<tables, nextId, lastOp>>

\* CSV data of the concurrent imports
AsyncCsvInputs == { Empty, << <<ColId, ColN>>, << <<"1">>, <<"a">> >> >> }

\* calls that are not awaited, and their resumptions in any order; the caller
\* adds no csv connection
NextAsync ==
  \/ \E name \in TableNames, csvData \in AsyncCsvInputs, lenient \in BOOLEAN :
       ImportCsvDataBegin(name, csvData, lenient)
  \/ \E i \in 1..MaxInFlight : ImportCsvDataResume(i)
  \/ InitializeCsvDatabaseBegin
  \/ \E i \in 1..MaxInFlight : InitializeCsvDatabaseResume(i)
  \/ AddConnection("postgresql")
  \/ \E connectionId \in 1..MaxConnections : SetActiveConnection(connectionId)
  \/ ExecuteQuery(SelectAllFromT)

SpecAsync == Init /\ [][NextAsync]_vars

(***************************************************************************)
(* Properties of calls that are not awaited, checked under SpecAsync.      *)
(***************************************************************************)
\* the registered connections of type csv
CsvConnections == {i \in DOMAIN connections : connections[i].type = "csv"}

\* C27: under every interleaving of importCsvData calls at their awaits, with no
\* csv connection added by the caller, at most one connection of type csv is
\* registered
C27_OneCsvConnection == Cardinality(CsvConnections) =< 1

\* a second importCsvData began while the first, which registered the csv
\* connection, was suspended, and used that connection
C27_Witness ==
  /\ lastCall.op = "begin" /\ Len(lastCall.csv) > 0
  /\ Len(tables) = 2
  /\ \E i \in DOMAIN pending : pending[i].op = "import"
  /\ Cardinality(CsvConnections) = 1
  /\ activeConnection # Null

\* C28: in every state, the states between the awaits of an importCsvData in
\* flight included, a connection is active when the store holds a table; an
\* executeQuery does not fail with "No active connection" when the store holds a
\* table, and does not find an imported table missing
C28_TableImpliesActiveConnection ==
  /\ Len(tables) > 0 => activeConnection # Null
  /\ (IsQuery /\ Len(tables) > 0) => result.kind # "NoActiveConnection"
  /\ (IsQuery /\ lastOp[NameT].op = "import") => result.kind # "TableDoesNotExist"

(***************************************************************************)
(* PRAGMA statements and tables that are not stored, checked under         *)
(* SpecStatement.                                                          *)
(***************************************************************************)
\* the last statement starts with pragma, after trimming, in any letter case
IsPragma == startsWith(toLowerCase(trim(StatementText(lastCall.q))), KwPragma)

\* C29: PRAGMA table_info(x) for a name x that is no table of the store does not
\* fail and returns no column and no row, while SELECT * on a name that is no table
\* fails with the table-not-found error naming it, and a PRAGMA statement that is
\* no table_info(...) fails with the PRAGMA parse error
C29_PragmaOfUnknownTable ==
  IsStatement =>
    /\ (IsPragma /\ pragmaMatch(StatementText(lastCall.q)).found
          /\ ~HasTable(tables, pragmaMatch(StatementText(lastCall.q)).text)) =>
         /\ result.status = "ok"
         /\ result.columns = Empty
         /\ result.rows = Empty
    /\ (lastCall.q.kind = "select" /\ lastCall.q.cols = <<Star>>
          /\ ~HasTable(tables, lastCall.q.table)) =>
         /\ result.status = "error"
         /\ result.kind = "TableDoesNotExist"
         /\ result.table = lastCall.q.table
    /\ (IsPragma /\ ~pragmaMatch(StatementText(lastCall.q)).found) =>
         /\ result.status = "error"
         /\ result.kind = "ParsePragma"

\* PRAGMA table_info(t) answered with nothing while only table T is stored
C29_Witness ==
  /\ IsStatement
  /\ lastCall.q = PragmaQuery(NameT)
  /\ ~HasTable(tables, NameT)
  /\ HasTable(tables, NameUpperT)
  /\ result.status = "ok"
  /\ result.columns = Empty
  /\ result.rows = Empty

(***************************************************************************)
(* The column types of an import, checked under Spec.                      *)
(***************************************************************************)
\* the cells at position i of the data rows of csvData, an absent cell as ""
CellsAt(csvData, i) ==
  [r \in 1..(Len(csvData) - 1) |-> CellOr(csvData[r + 1], i)]

\* C30: after an import with a header row, the type stored for the column at every
\* position i is the type inferred from the cells at position i of the data rows,
\* also when the header row holds the same name twice
C30_TypeFromOwnPosition ==
  (lastCall.op = "import" /\ Len(lastCall.csv) > 0) =>
    /\ Len(TableOf(lastCall.name).columns) = Len(lastCall.csv[1])
    /\ \E lenient \in BOOLEAN :
         \A i \in 1..Len(lastCall.csv[1]) :
           TableOf(lastCall.name).columns[i].type =
             detectColumnType(CellsAt(lastCall.csv, i), lenient)

=============================================================================
